---- MODULE Spec2Model ----
(***************************************************************************)
(* SecureSync: the dependency graph builder (src/graph/builder.ts), its    *)
(* query layer, the npm scanner that produces the dependency tree, and the *)
(* SBOM generator (src/sbom/generator.ts) with its reference derivations.  *)
(*                                                                         *)
(* A DependencyTree is a finite ordered forest of DependencyNode           *)
(* occurrences.  The occurrences are numbered 1..n in the order in which   *)
(* the nested Map iteration of buildGraph/buildNodeRecursive meets them    *)
(* (preorder: a node, then its dependencies map in insertion order), and   *)
(* up[i] is the occurrence whose dependencies map holds occurrence i       *)
(* (0 for an entry of depTree.dependencies).                               *)
(***************************************************************************)
EXTENDS Integers, Sequences, FiniteSets, TLC

VARIABLES
    project,   \* package.json, package-lock.json and the scan options
    depTree,   \* the DependencyTree handed to buildGraph
    pc,        \* "scan" before the scanner ran, "build" while buildGraph
               \* runs, "done" once it has returned
    stack,     \* active buildNodeRecursive calls, innermost last
    cursor,    \* next occurrence of depTree the Map iteration yields
    nodes,     \* graph.nodes, a Map in insertion order (key = value.id)
    edges,     \* graph.edges
    roots,     \* graph.roots
    result     \* what the last query on the built graph returned

vars == <<project, depTree, pc, stack, cursor, nodes, edges, roots, result>>

\* ---------------------------------------------------------------- bounds
MaxOcc == 5

\* ------------------------------------------------- input: DependencyTree
PackageNames == {"a", "b", "c"}
PackagePairs == {<<"a", "1">>, <<"a", "2">>, <<"b", "1">>, <<"c", "1">>}
AbsentName == "non-existent"

RECURSIVE AncSelf(_, _)
AncSelf(up, i) == IF i = 0 THEN {} ELSE {i} \cup AncSelf(up, up[i])

\* A key that leaves the version out.
NodeIdNameOnly(name, version) == name

\* The dedup key `${name}@${version}` (builder.ts lines 27 and 71).
NodeId(name, version) == name \o "@" \o version

OccId(t, i) == NodeId(t.name[i], t.version[i])

\* A Map has one entry per key: the names in one dependencies map differ.
SiblingsDistinct(t) ==
    \A i, j \in 1..t.n :
        (i < j /\ t.up[i] = t.up[j]) => t.name[i] # t.name[j]

\* The "depends on" relation between packages that the tree denotes.
DependsOn(t) ==
    { <<OccId(t, t.up[i]), OccId(t, i)>> : i \in { k \in 1..t.n : t.up[k] # 0 } }

RECURSIVE Reach(_, _)
Reach(R, S) ==
    LET T == S \cup { e[2] : e \in { f \in R : f[1] \in S } }
    IN  IF T = S THEN S ELSE Reach(R, T)

\* No package transitively depends on itself (the resolved tree is acyclic).
Acyclic(t) ==
    \A e \in DependsOn(t) : e[1] \notin Reach(DependsOn(t), {e[2]})

ValidTree(t) == SiblingsDistinct(t) /\ Acyclic(t)

\* The project itself: name and version of its package.json, which become
\* tree.name and tree.version (part_008 lines 179-180).
ProjectName == "app"
ProjectVersion == "1.0.0"

EmptyTree ==
    [rootName |-> ProjectName, rootVersion |-> ProjectVersion,
     n |-> 0, up |-> << >>, name |-> << >>, version |-> << >>, packages |-> << >>]

\* The tree t with one more DependencyNode, the last one the iteration meets,
\* put into the dependencies map of occurrence p (0: depTree.dependencies).
Extend(t, p, pair) ==
    [rootName |-> t.rootName, rootVersion |-> t.rootVersion,
     n |-> t.n + 1, up |-> Append(t.up, p),
     name |-> Append(t.name, pair[1]), version |-> Append(t.version, pair[2]),
     packages |-> t.packages]

\* Every valid tree of n occurrences: the last occurrence in iteration order
\* hangs under the previous occurrence or one of its ancestors, or at top level.
RECURSIVE TreesOfSize(_)
TreesOfSize(n) ==
    IF n = 0 THEN {EmptyTree}
    ELSE { x \in UNION { { Extend(t, p, pair) :
                              p \in {0} \cup AncSelf(t.up, t.n),
                              pair \in PackagePairs } : t \in TreesOfSize(n - 1) } :
             ValidTree(x) }

Trees == UNION { TreesOfSize(n) : n \in 0..MaxOcc }

\* No project on disk: the tree is handed to buildGraph by an API caller.
NoEntry == [present |-> FALSE, version |-> "", dependencies |-> << >>]
NoProject ==
    [packageJson |-> [name |-> ProjectName, version |-> ProjectVersion,
                      dependencies |-> << >>, devDependencies |-> << >>],
     lockfile |-> [name \in PackageNames |-> NoEntry],
     includeDevDependencies |-> FALSE]

Init ==
    /\ project = NoProject
    /\ depTree \in Trees
    /\ pc = "build"
    /\ stack = << >>
    /\ cursor = 1
    /\ nodes = << >>
    /\ edges = << >>
    /\ roots = << >>
    /\ result = [op |-> "none", arg |-> "", value |-> << >>]

\* ------------------------------------------------ scanner: scanNpmProject
MaxDeclared == 2
MaxDevDeclared == 1

\* The version the lockfile resolves each name to.
LockPairs == {<<"a", "1">>, <<"b", "1">>, <<"c", "1">>}

\* Lists of distinct names: the keys of a JSON object, in insertion order.
RECURSIVE KeyLists(_, _)
KeyLists(S, n) ==
    IF n = 0 THEN { << >> }
    ELSE KeyLists(S, n - 1) \cup
         { Append(l, x) : l \in { m \in KeyLists(S, n - 1) : Len(m) = n - 1 }, x \in S }

DistinctKeyLists(S, n) ==
    { l \in KeyLists(S, n) : \A i, j \in 1..Len(l) : l[i] = l[j] => i = j }

\* lockfile.packages["node_modules/<name>"] for every name, or no such entry.
LockEntries(name) ==
    {NoEntry} \cup
    { [present |-> TRUE, version |-> pr[2], dependencies |-> d] :
        pr \in { q \in LockPairs : q[1] = name },
        d \in DistinctKeyLists(PackageNames \ {name}, MaxDeclared) }

LockDependsOn(lf) ==
    UNION { { <<name, lf[name].dependencies[k]>> : k \in 1..Len(lf[name].dependencies) } :
              name \in PackageNames }

\* buildTransitiveDeps returns only for a lockfile without dependency cycles.
Lockfiles ==
    { lf \in [PackageNames -> UNION { LockEntries(name) : name \in PackageNames }] :
        /\ \A name \in PackageNames : lf[name] \in LockEntries(name)
        /\ \A e \in LockDependsOn(lf) : e[1] \notin Reach(LockDependsOn(lf), {e[2]}) }

Projects ==
    { [packageJson |-> [name |-> ProjectName, version |-> ProjectVersion,
                        dependencies |-> d, devDependencies |-> dd],
       lockfile |-> lf, includeDevDependencies |-> inc] :
        d \in DistinctKeyLists(PackageNames, MaxDeclared),
        dd \in DistinctKeyLists(PackageNames, MaxDevDeclared),
        lf \in Lockfiles, inc \in BOOLEAN }

\* buildTransitiveDeps (part_008 lines 187-206), and the loops of
\* buildDependencyTree that fill the top-level Map (lines 140-148, 158-166):
\* the nodes for the names from the k-th on go into the dependencies map of
\* occurrence p, each followed by the map built from its own lock entry.  A
\* name the Map already holds keeps its place (Map.set on an existing key).
RECURSIVE AddDependencies(_, _, _, _, _)
AddDependencies(t, lf, names, k, p) ==
    IF k > Len(names) THEN t
    ELSE LET name == names[k]
             entry == lf[name]
             held == \E i \in 1..t.n : t.up[i] = p /\ t.name[i] = name
         IN  IF ~entry.present \/ held
             THEN AddDependencies(t, lf, names, k + 1, p)
             ELSE LET t1 == Extend(t, p, <<name, entry.version>>)
                      t2 == AddDependencies(t1, lf, entry.dependencies, 1, t1.n)
                  IN  AddDependencies(t2, lf, names, k + 1, p)

PackageInfo(name, version, isDevDependency, isDirect) ==
    [name |-> name, version |-> version,
     isDevDependency |-> isDevDependency, isDirect |-> isDirect]

\* The packages.push of the two loops of buildDependencyTree (lines 149-154
\* and 167-172): one entry per declared name that has a lock entry.
RECURSIVE DirectPackages(_, _, _, _)
DirectPackages(lf, names, k, isDev) ==
    IF k > Len(names) THEN << >>
    ELSE (IF lf[names[k]].present
          THEN << PackageInfo(names[k], lf[names[k]].version, isDev, TRUE) >>
          ELSE << >>)
         \o DirectPackages(lf, names, k + 1, isDev)

PackageKeys(packages) ==
    { NodeId(packages[k].name, packages[k].version) : k \in 1..Len(packages) }

\* collectAllPackages (lines 208-232): the occurrences below the top level, in
\* iteration order; a key not seen yet is pushed with isDev = false.
RECURSIVE collectAllPackages(_, _, _)
collectAllPackages(t, i, packages) ==
    IF i > t.n THEN packages
    ELSE IF t.up[i] # 0 /\ OccId(t, i) \notin PackageKeys(packages)
         THEN collectAllPackages(t, i + 1,
                  Append(packages, PackageInfo(t.name[i], t.version[i], FALSE, FALSE)))
         ELSE collectAllPackages(t, i + 1, packages)

\* buildDependencyTree (lines 128-185).
buildDependencyTree(packageJson, lockfile, includeDevDeps) ==
    LET deps == packageJson.dependencies
        devDeps == IF includeDevDeps THEN packageJson.devDependencies ELSE << >>
        t == AddDependencies(AddDependencies(EmptyTree, lockfile, deps, 1, 0),
                             lockfile, devDeps, 1, 0)
        direct == DirectPackages(lockfile, deps, 1, FALSE)
                  \o DirectPackages(lockfile, devDeps, 1, TRUE)
    IN  [t EXCEPT !.rootName = packageJson.name,
                  !.rootVersion = packageJson.version,
                  !.packages = collectAllPackages(t, 1, direct)]

\* scanNpmProject lines 70-74.
ScanNpmProject ==
    /\ pc = "scan"
    /\ depTree' = buildDependencyTree(project.packageJson, project.lockfile,
                                      project.includeDevDependencies)
    /\ pc' = "build"
    /\ UNCHANGED <<project, stack, cursor, nodes, edges, roots, result>>

InitScan ==
    /\ project \in Projects
    /\ depTree = EmptyTree
    /\ pc = "scan"
    /\ stack = << >>
    /\ cursor = 1
    /\ nodes = << >>
    /\ edges = << >>
    /\ roots = << >>
    /\ result = [op |-> "none", arg |-> "", value |-> << >>]

\* ------------------------------------------------------ Map<string, T>
\* graph.nodes is a JavaScript Map: entries in insertion order, one per key;
\* every entry is stored under the key equal to its id field.
MapHas(m, k) == \E i \in 1..Len(m) : m[i].id = k
MapIndex(m, k) == CHOOSE i \in 1..Len(m) : m[i].id = k
MapGet(m, k) == m[MapIndex(m, k)]
MapSet(m, k, v) ==
    IF MapHas(m, k) THEN [m EXCEPT ![MapIndex(m, k)] = v] ELSE Append(m, v)
MapKeys(m) == { m[i].id : i \in 1..Len(m) }

Includes(seq, x) == \E i \in 1..Len(seq) : seq[i] = x

\* `parent: string | undefined`; `if (parent)` is false for undefined and "".
Undefined == "undefined"
Truthy(s) == s # Undefined /\ s # ""

\* ------------------------------------------------------------ buildGraph
\* The object literal of builder.ts lines 47-56.
GraphNode(nodeId, name, version, depth, parent, isDevDependency) ==
    [id |-> nodeId, name |-> name, version |-> version, depth |-> depth,
     parent |-> parent, children |-> << >>, vulnerabilities |-> 0,
     isDevDependency |-> isDevDependency]

\* A table that re-minimises the depth when a package is met again.
AddNodeMinDepth(ns, nodeId, name, version, depth, parent, isDevDependency) ==
    IF ~MapHas(ns, nodeId)
    THEN MapSet(ns, nodeId,
                GraphNode(nodeId, name, version, depth, parent, isDevDependency))
    ELSE IF depth < MapGet(ns, nodeId).depth
         THEN [ns EXCEPT ![MapIndex(ns, nodeId)].depth = depth,
                         ![MapIndex(ns, nodeId)].parent = parent]
         ELSE ns

\* Lines 45-57: a node is created only for a key the table does not hold.
AddNode(ns, nodeId, name, version, depth, parent, isDevDependency) ==
    IF ~MapHas(ns, nodeId)
    THEN MapSet(ns, nodeId,
                GraphNode(nodeId, name, version, depth, parent, isDevDependency))
    ELSE ns

\* An edge list deduplicated like the children lists.
AddEdgeDedup(es, parent, nodeId) ==
    IF Truthy(parent) /\ ~Includes(es, [from |-> parent, to |-> nodeId])
    THEN Append(es, [from |-> parent, to |-> nodeId])
    ELSE es

\* Line 61: edges.push({ from: parent, to: nodeId }).
AddEdge(es, parent, nodeId) ==
    IF Truthy(parent) THEN Append(es, [from |-> parent, to |-> nodeId]) ELSE es

\* A children list filled only by the parent that the child's node records.
AddChildFirstParent(ns, parent, nodeId) ==
    IF Truthy(parent) /\ MapHas(ns, parent) /\ MapHas(ns, nodeId)
                      /\ MapGet(ns, nodeId).parent = parent
                      /\ ~Includes(MapGet(ns, parent).children, nodeId)
    THEN [ns EXCEPT ![MapIndex(ns, parent)].children = Append(@, nodeId)]
    ELSE ns

\* A children list that takes an id only while it is empty.
AddChildWhenEmpty(ns, parent, nodeId) ==
    IF Truthy(parent) /\ MapHas(ns, parent)
                      /\ Len(MapGet(ns, parent).children) = 0
    THEN [ns EXCEPT ![MapIndex(ns, parent)].children = Append(@, nodeId)]
    ELSE ns

\* Lines 62-65: the parent's children list gets the id unless it has it.
AddChild(ns, parent, nodeId) ==
    IF Truthy(parent) /\ MapHas(ns, parent)
                      /\ ~Includes(MapGet(ns, parent).children, nodeId)
    THEN [ns EXCEPT ![MapIndex(ns, parent)].children = Append(@, nodeId)]
    ELSE ns

\* The frames of the call stack up to the call that visits occurrence p; the
\* calls above it have run their loops to the end and returned.
Unwind(st, p) ==
    IF p = 0 THEN << >>
    ELSE SubSeq(st, 1, CHOOSE k \in 1..Len(st) : st[k].occ = p)

\* The part of buildNodeRecursive before its loop (lines 45-66), for the
\* occurrence at the cursor, called with the given arguments.
Visit(nodeId, depth, parent, isDevDependency) ==
    /\ nodes' = AddChild(AddNode(nodes, nodeId, depTree.name[cursor],
                                 depTree.version[cursor], depth, parent,
                                 isDevDependency),
                         parent, nodeId)
    /\ edges' = AddEdge(edges, parent, nodeId)
    /\ stack' = Append(Unwind(stack, depTree.up[cursor]),
                       [occ |-> cursor, nodeId |-> nodeId, depth |-> depth,
                        isDevDependency |-> isDevDependency])
    /\ cursor' = cursor + 1

\* The flag buildGraph passes for every entry of depTree.dependencies (line 30).
RootIsDev(i) == FALSE

\* buildGraph lines 26-31: one iteration of the loop over depTree.dependencies.
BuildGraphLoop ==
    /\ pc = "build"
    /\ cursor <= depTree.n
    /\ depTree.up[cursor] = 0
    /\ LET nodeId == NodeId(depTree.name[cursor], depTree.version[cursor])
       IN  /\ roots' = Append(roots, nodeId)
           /\ Visit(nodeId, 0, Undefined, RootIsDev(cursor))
    /\ UNCHANGED <<project, depTree, pc, result>>

\* buildNodeRecursive lines 69-81: one iteration of the loop over
\* dep.dependencies in the call for occurrence up[cursor], and the call it makes.
BuildNodeRecursive ==
    /\ pc = "build"
    /\ cursor <= depTree.n
    /\ depTree.up[cursor] # 0
    /\ LET caller == Unwind(stack, depTree.up[cursor])
           frame == caller[Len(caller)]
           childId == NodeId(depTree.name[cursor], depTree.version[cursor])
       IN  Visit(childId, frame.depth + 1, frame.nodeId, frame.isDevDependency)
    /\ UNCHANGED <<project, depTree, pc, roots, result>>

\* buildGraph line 33: every loop is exhausted, the graph is returned.
BuildGraphReturn ==
    /\ pc = "build"
    /\ cursor > depTree.n
    /\ pc' = "done"
    /\ stack' = << >>
    /\ UNCHANGED <<project, depTree, cursor, nodes, edges, roots, result>>

graph == [nodes |-> nodes, edges |-> edges, roots |-> roots]

\* ----------------------------------------------------------- query layer
RECURSIVE findPathsRecursive(_, _, _, _)
RECURSIVE findPathsLoop(_, _, _, _, _)

\* The loop of findPathsRecursive (lines 119-131) from the k-th child on.
findPathsLoop(g, children, k, targetPackage, currentPath) ==
    IF k > Len(children) THEN << >>
    ELSE LET childId == children[k]
             rest == findPathsLoop(g, children, k + 1, targetPackage, currentPath)
         IN  IF ~MapHas(g.nodes, childId) THEN rest
             ELSE LET newPath == Append(currentPath, childId)
                  IN  (IF MapGet(g.nodes, childId).name = targetPackage
                       THEN << newPath >>
                       ELSE findPathsRecursive(g, childId, targetPackage, newPath))
                      \o rest

\* A search that looks at the roots and their children and no further.
findPathsNoDescent(g, currentNodeId, targetPackage, currentPath) ==
    IF ~MapHas(g.nodes, currentNodeId) \/ Len(currentPath) > 1 THEN << >>
    ELSE findPathsLoop(g, MapGet(g.nodes, currentNodeId).children, 1,
                       targetPackage, currentPath)

findPathsRecursive(g, currentNodeId, targetPackage, currentPath) ==
    IF ~MapHas(g.nodes, currentNodeId) THEN << >>
    ELSE findPathsLoop(g, MapGet(g.nodes, currentNodeId).children, 1,
                       targetPackage, currentPath)

\* The loop of findDependencyPath (lines 91-101) from the k-th root on.
RECURSIVE findRootsLoop(_, _, _)
findRootsLoop(g, k, packageName) ==
    IF k > Len(g.roots) THEN << >>
    ELSE LET root == g.roots[k]
             rest == findRootsLoop(g, k + 1, packageName)
         IN  IF ~MapHas(g.nodes, root) THEN rest
             ELSE (IF MapGet(g.nodes, root).name = packageName
                   THEN << <<root>> >>
                   ELSE findPathsRecursive(g, root, packageName, <<root>>))
                  \o rest

findDependencyPath(g, packageName) == findRootsLoop(g, 1, packageName)

IsDirect(node) == node.depth = 0
IsTransitiveFromTwo(node) == node.depth > 1
IsTransitive(node) == node.depth > 0

getDirectDependencies(g) == SelectSeq(g.nodes, IsDirect)
getTransitiveDependencies(g) == SelectSeq(g.nodes, IsTransitive)

FindDependencyPath ==
    /\ pc = "done"
    /\ \E packageName \in PackageNames \cup {AbsentName} :
         result' = [op |-> "findDependencyPath", arg |-> packageName,
                    value |-> findDependencyPath(graph, packageName)]
    /\ UNCHANGED <<project, depTree, pc, stack, cursor, nodes, edges, roots>>

GetDirectDependencies ==
    /\ pc = "done"
    /\ result' = [op |-> "getDirectDependencies", arg |-> "",
                  value |-> getDirectDependencies(graph)]
    /\ UNCHANGED <<project, depTree, pc, stack, cursor, nodes, edges, roots>>

GetTransitiveDependencies ==
    /\ pc = "done"
    /\ result' = [op |-> "getTransitiveDependencies", arg |-> "",
                  value |-> getTransitiveDependencies(graph)]
    /\ UNCHANGED <<project, depTree, pc, stack, cursor, nodes, edges, roots>>

Next ==
    \/ BuildGraphLoop
    \/ BuildNodeRecursive
    \/ BuildGraphReturn
    \/ FindDependencyPath
    \/ GetDirectDependencies
    \/ GetTransitiveDependencies

Spec == Init /\ [][Next]_vars

\* The scan followed by the construction of the graph of its tree.
NextScan ==
    \/ ScanNpmProject
    \/ BuildGraphLoop
    \/ BuildNodeRecursive
    \/ BuildGraphReturn

SpecScan == InitScan /\ [][NextScan]_vars

TypeOK ==
    /\ pc \in {"scan", "build", "done"}
    /\ cursor \in 1..(depTree.n + 1)
    /\ Len(stack) <= depTree.n

\* ------------------------------------------------ the tree, as a reference
Occurrences(t) == 1..t.n
TreePairs(t) == { <<t.name[i], t.version[i]>> : i \in Occurrences(t) }
TreeDepth(t, i) == Cardinality(AncSelf(t.up, i)) - 1
OccsOf(t, id) == { i \in Occurrences(t) : OccId(t, i) = id }
FirstOcc(t, id) == CHOOSE i \in OccsOf(t, id) : \A j \in OccsOf(t, id) : i <= j
ParentIdOf(t, i) == IF t.up[i] = 0 THEN Undefined ELSE OccId(t, t.up[i])

SeqSet(seq) == { seq[i] : i \in 1..Len(seq) }
NoRepeat(seq) == \A i, j \in 1..Len(seq) : seq[i] = seq[j] => i = j
Last(seq) == seq[Len(seq)]
Count(seq, x) == Cardinality({ i \in 1..Len(seq) : seq[i] = x })

ChildRel(ns) ==
    UNION { { <<ns[i].id, c>> : c \in SeqSet(ns[i].children) } : i \in 1..Len(ns) }

\* Every id-sequence that extends path along children lists.
RECURSIVE PathsFrom(_, _)
PathsFrom(ns, path) ==
    {path} \cup
    UNION { PathsFrom(ns, Append(path, c)) :
              c \in { d \in SeqSet(MapGet(ns, Last(path)).children) : MapHas(ns, d) } }

RootPaths(g) ==
    UNION { PathsFrom(g.nodes, <<r>>) : r \in { x \in SeqSet(g.roots) : MapHas(g.nodes, x) } }

PathsTo(g, name) == { p \in RootPaths(g) : MapGet(g.nodes, Last(p)).name = name }

\* ---------------------------------------------------------------- claims

\* C1: the node table of the returned graph has exactly one GraphNode per
\* distinct (name, version) pair of the tree: none missing, none twice, and
\* nodes.size is the number of distinct pairs.
C1_OneNodePerPair ==
    pc = "done" =>
        /\ \A pr \in TreePairs(depTree) :
             Cardinality({ i \in 1..Len(nodes) :
                 nodes[i].name = pr[1] /\ nodes[i].version = pr[2] }) = 1
        /\ \A i \in 1..Len(nodes) :
             <<nodes[i].name, nodes[i].version>> \in TreePairs(depTree)
        /\ Len(nodes) = Cardinality(TreePairs(depTree))

\* A tree that repeats a pair and holds one name at two versions was built.
C1_Witness ==
    /\ pc = "done"
    /\ Len(nodes) < depTree.n
    /\ \E i, j \in 1..Len(nodes) :
         nodes[i].name = nodes[j].name /\ nodes[i].version # nodes[j].version

\* C2: in the returned graph every id of every children list is a key of
\* nodes, and the target of every edge is reachable from a root along
\* children lists.
C2_ChildrenAndEdgesResolve ==
    pc = "done" =>
        /\ \A i \in 1..Len(nodes) : SeqSet(nodes[i].children) \subseteq MapKeys(nodes)
        /\ \A k \in 1..Len(edges) :
             edges[k].to \in Reach(ChildRel(nodes), SeqSet(roots))

\* An edge leads to a node that was first reached through another parent,
\* from a parent that has more than one child.
C2_Witness ==
    /\ pc = "done"
    /\ \E k \in 1..Len(edges) :
         /\ MapGet(nodes, edges[k].to).parent # edges[k].from
         /\ Len(MapGet(nodes, edges[k].from).children) > 1

\* C3: a node has depth 0 exactly when its id is a root, so
\* getDirectDependencies returns exactly the root nodes and
\* getTransitiveDependencies returns no root.
C3_DirectIffRoot ==
    /\ pc = "done" =>
         \A i \in 1..Len(nodes) : (nodes[i].depth = 0) <=> Includes(roots, nodes[i].id)
    /\ result.op = "getDirectDependencies" =>
         { result.value[i].id : i \in 1..Len(result.value) } = SeqSet(roots)
    /\ result.op = "getTransitiveDependencies" =>
         \A i \in 1..Len(result.value) : ~Includes(roots, result.value[i].id)

\* C4: findDependencyPath returns every id-sequence that starts at a root,
\* follows children lists and ends at a node of the given name, each once.
C4_AllPathsReturned ==
    result.op = "findDependencyPath" =>
        /\ SeqSet(result.value) = PathsTo(graph, result.arg)
        /\ NoRepeat(result.value)

\* C5: in a diamond (P occurs exactly twice, under two top-level packages
\* that occur nowhere else and are not versions of P, and no other version of
\* P is in the tree) the graph has one node for P, exactly two edges into P,
\* one from each parent, and findDependencyPath(name of P) returns exactly the
\* two paths through the two parents.
Diamond(t, i, j) ==
    /\ i < j
    /\ OccId(t, i) = OccId(t, j)
    /\ \A k \in Occurrences(t) : t.name[k] = t.name[i] => k \in {i, j}
    /\ t.up[i] # 0 /\ t.up[j] # 0
    /\ t.up[t.up[i]] = 0 /\ t.up[t.up[j]] = 0
    /\ OccsOf(t, OccId(t, t.up[i])) = {t.up[i]}
    /\ OccsOf(t, OccId(t, t.up[j])) = {t.up[j]}
    /\ t.name[t.up[i]] # t.name[i] /\ t.name[t.up[j]] # t.name[i]

C6_Frame ==
    /\ Len(nodes') >= Len(nodes)
    /\ \A i \in 1..Len(nodes) :
         /\ nodes'[i].id = nodes[i].id
         /\ nodes'[i].depth = nodes[i].depth
         /\ nodes'[i].parent = nodes[i].parent
         /\ nodes'[i].isDevDependency = nodes[i].isDevDependency
    /\ (pc = "build" /\ cursor <= depTree.n /\ MapHas(nodes, OccId(depTree, cursor))) =>
         LET c == OccId(depTree, cursor)
             p == ParentIdOf(depTree, cursor)
         IN  /\ Len(nodes') = Len(nodes)
             /\ \A i \in 1..Len(nodes) :
                  nodes'[i] # nodes[i] =>
                      /\ nodes[i].id = p
                      /\ ~Includes(nodes[i].children, c)
                      /\ nodes'[i] = [nodes[i] EXCEPT !.children = Append(@, c)]
             /\ edges' = IF p = Undefined THEN edges
                         ELSE Append(edges, [from |-> p, to |-> c])

C6_FirstOccurrence ==
    \A i \in 1..Len(nodes) :
        LET f == FirstOcc(depTree, nodes[i].id)
        IN  /\ nodes[i].depth = TreeDepth(depTree, f)
            /\ nodes[i].parent = ParentIdOf(depTree, f)

C6_FirstSeenWins == [][C6_Frame]_vars /\ []C6_FirstOccurrence

\* A package was met again at a smaller depth and kept its first depth.
C6_Witness ==
    /\ pc = "done"
    /\ \E i \in 1..Len(nodes) : \E k \in OccsOf(depTree, nodes[i].id) :
         TreeDepth(depTree, k) < nodes[i].depth

\* C7: getDirectDependencies and getTransitiveDependencies partition the
\* node table: every node is in exactly one result, every depth is an
\* integer >= 0, and the two sizes add up to nodes.size.
C7_Partition ==
    pc = "done" =>
        LET direct == getDirectDependencies(graph)
            transitive == getTransitiveDependencies(graph)
        IN  /\ \A i \in 1..Len(nodes) :
                 /\ nodes[i].depth \in Nat
                 /\ Includes(direct, nodes[i]) # Includes(transitive, nodes[i])
            /\ Len(direct) + Len(transitive) = Len(nodes)
            /\ result.op = "getDirectDependencies" => result.value = direct
            /\ result.op = "getTransitiveDependencies" => result.value = transitive

C7_Witness ==
    /\ result.op = "getTransitiveDependencies"
    /\ \E i \in 1..Len(result.value) : result.value[i].depth > 1
    /\ Len(getDirectDependencies(graph)) > 1

\* C8: findDependencyPath returns the empty list exactly when no node has
\* the name, and every returned path ends at a node of that name.
C8_EmptyIffAbsent ==
    result.op = "findDependencyPath" =>
        /\ (result.value = << >>) <=>
             ~\E i \in 1..Len(nodes) : nodes[i].name = result.arg
        /\ \A k \in 1..Len(result.value) :
             /\ Len(result.value[k]) > 0
             /\ MapHas(nodes, Last(result.value[k]))
             /\ MapGet(nodes, Last(result.value[k])).name = result.arg

\* The name sits three levels down and nowhere higher.
C8_Witness ==
    /\ result.op = "findDependencyPath"
    /\ result.value # << >>
    /\ \A k \in 1..Len(result.value) : Len(result.value[k]) >= 3

\* The top-level occurrence above occurrence i.
RECURSIVE RootOf(_, _)
RootOf(t, i) == IF t.up[i] = 0 THEN i ELSE RootOf(t, t.up[i])

\* The names the scanner took from devDependencies and not from dependencies.
DevRootNames(t) ==
    { t.packages[k].name : k \in { j \in 1..Len(t.packages) :
          t.packages[j].isDirect /\ t.packages[j].isDevDependency } }
    \ { t.packages[k].name : k \in { j \in 1..Len(t.packages) :
          t.packages[j].isDirect /\ ~t.packages[j].isDevDependency } }

OnlyViaDevRoots(t, id) ==
    \A i \in OccsOf(t, id) : t.name[RootOf(t, i)] \in DevRootNames(t)

\* C9: in the graph of a scanned tree, a package reachable only through
\* dev-dependency roots has isDevDependency = true, and the flag of every node
\* equals the flag of the root under which it was first seen.
C9_DevOnlyMarkedDev ==
    pc = "done" =>
        \A i \in 1..Len(nodes) :
            /\ OnlyViaDevRoots(depTree, nodes[i].id) => nodes[i].isDevDependency
            /\ nodes[i].isDevDependency =
                 MapGet(nodes, OccId(depTree, RootOf(depTree,
                            FirstOcc(depTree, nodes[i].id)))).isDevDependency

\* C10: no children list holds an id twice; (p, c) is in edges exactly when
\* c is in the children list of p; and edges holds one entry per
\* parent-to-child occurrence of the tree.
C10_ChildrenDedupEdgesNot ==
    pc = "done" =>
        /\ \A i \in 1..Len(nodes) : NoRepeat(nodes[i].children)
        /\ { <<edges[k].from, edges[k].to>> : k \in 1..Len(edges) } = ChildRel(nodes)
        /\ \A k \in 1..Len(edges) :
             Count(edges, edges[k]) =
                 Cardinality({ i \in Occurrences(depTree) :
                     /\ depTree.up[i] # 0
                     /\ OccId(depTree, i) = edges[k].to
                     /\ OccId(depTree, depTree.up[i]) = edges[k].from })
        /\ Len(edges) = Cardinality({ i \in Occurrences(depTree) : depTree.up[i] # 0 })

\* The same parent-to-child pair was traversed twice.
C10_Witness ==
    /\ pc = "done"
    /\ \E k \in 1..Len(edges) : Count(edges, edges[k]) = 2

\* ------------------------------- input: DependencyNode objects on the heap
\* A DependencyTree as the objects the caller holds: tree.dependencies and
\* every node.dependencies are Maps whose values are references to
\* DependencyNode objects, and nothing keeps a reference from leading back to
\* an object it was reached from.
MaxStack == 4

\* The (name, version) of each DependencyNode object.
ObjPair == << <<"a", "1">>, <<"b", "1">>, <<"c", "1">> >>
Objects == DOMAIN ObjPair
ObjId(o) == NodeId(ObjPair[o][1], ObjPair[o][2])

\* The values of one dependencies Map, in insertion order.
RefLists == DistinctKeyLists(Objects, Cardinality(Objects) - 1)

ObjectTrees == { [top |-> tp, deps |-> d] : tp \in RefLists, d \in [Objects -> RefLists] }

RefRel(h) ==
    UNION { { <<o, h.deps[o][k]>> : k \in 1..Len(h.deps[o]) } : o \in Objects }

\* The objects of the input, and whether one of them is reachable from itself.
ObjectsOf(h) == Reach(RefRel(h), { h.top[k] : k \in 1..Len(h.top) })
Cyclic(h) ==
    \E o \in ObjectsOf(h) :
        o \in Reach(RefRel(h), { e[2] : e \in { f \in RefRel(h) : f[1] = o } })

InitObjects ==
    /\ project = NoProject
    /\ depTree \in ObjectTrees
    /\ pc = "build"
    /\ stack = << >>
    /\ cursor = 1
    /\ nodes = << >>
    /\ edges = << >>
    /\ roots = << >>
    /\ result = [op |-> "none", arg |-> "", value |-> << >>]

\* A call that runs its loop only for a package the table did not hold.
EnterLoopIfNew(ns, frame) ==
    IF MapHas(ns, frame.nodeId) THEN << >> ELSE << frame >>

\* Lines 69-81: every call runs the loop over dep.dependencies, whether or
\* not the package had a node before the call.
EnterLoop(ns, frame) == << frame >>

\* Lines 45-66 for object o, then the frame in which its loop runs.
VisitObject(caller, o, depth, parent, isDevDependency) ==
    /\ nodes' = AddChild(AddNode(nodes, ObjId(o), ObjPair[o][1], ObjPair[o][2],
                                 depth, parent, isDevDependency),
                         parent, ObjId(o))
    /\ edges' = AddEdge(edges, parent, ObjId(o))
    /\ stack' = caller \o EnterLoop(nodes,
                    [obj |-> o, nodeId |-> ObjId(o), depth |-> depth,
                     isDevDependency |-> isDevDependency, next |-> 1])

\* buildGraph lines 26-31, one iteration.
ObjBuildGraphLoop ==
    /\ pc = "build"
    /\ stack = << >>
    /\ cursor <= Len(depTree.top)
    /\ roots' = Append(roots, ObjId(depTree.top[cursor]))
    /\ VisitObject(<< >>, depTree.top[cursor], 0, Undefined, RootIsDev(cursor))
    /\ cursor' = cursor + 1
    /\ UNCHANGED <<project, depTree, pc, result>>

\* buildNodeRecursive lines 69-81, one iteration of the innermost running
\* loop: the recursive call for the next entry of dep.dependencies.
ObjBuildNodeRecursive ==
    /\ pc = "build"
    /\ stack # << >>
    /\ Len(stack) < MaxStack
    /\ LET frame == stack[Len(stack)]
           deps == depTree.deps[frame.obj]
       IN  /\ frame.next <= Len(deps)
           /\ VisitObject([stack EXCEPT ![Len(stack)].next = frame.next + 1],
                          deps[frame.next], frame.depth + 1, frame.nodeId,
                          frame.isDevDependency)
    /\ UNCHANGED <<project, depTree, pc, cursor, roots, result>>

\* The innermost loop is exhausted: the call returns to its caller (line 82).
ObjReturn ==
    /\ pc = "build"
    /\ stack # << >>
    /\ stack[Len(stack)].next > Len(depTree.deps[stack[Len(stack)].obj])
    /\ stack' = SubSeq(stack, 1, Len(stack) - 1)
    /\ UNCHANGED <<project, depTree, pc, cursor, nodes, edges, roots, result>>

\* buildGraph line 33.
ObjBuildGraphReturn ==
    /\ pc = "build"
    /\ stack = << >>
    /\ cursor > Len(depTree.top)
    /\ pc' = "done"
    /\ UNCHANGED <<project, depTree, stack, cursor, nodes, edges, roots, result>>

NextObjects ==
    \/ ObjBuildGraphLoop
    \/ ObjBuildNodeRecursive
    \/ ObjReturn
    \/ ObjBuildGraphReturn

\* buildGraph is synchronous code: once called it keeps taking steps.
SpecObjects == InitObjects /\ [][NextObjects]_vars /\ WF_vars(NextObjects)

\* The (parent, child) pairs of the occurrences below object o, a node before
\* the nodes of its dependencies map, from the k-th entry of that map on.
RECURSIVE OccurrenceEdges(_, _, _)
OccurrenceEdges(h, o, k) ==
    IF k > Len(h.deps[o]) THEN << >>
    ELSE << [from |-> ObjId(o), to |-> ObjId(h.deps[o][k])] >>
         \o OccurrenceEdges(h, h.deps[o][k], 1)
         \o OccurrenceEdges(h, o, k + 1)

RECURSIVE TopOccurrenceEdges(_, _)
TopOccurrenceEdges(h, k) ==
    IF k > Len(h.top) THEN << >>
    ELSE OccurrenceEdges(h, h.top[k], 1) \o TopOccurrenceEdges(h, k + 1)

\* C11: buildGraph returns on every acyclic input, having visited every node
\* occurrence once and in traversal order (one root entry per top-level
\* occurrence, one edge per occurrence below), and it never returns on an
\* input in which a DependencyNode is reachable from itself.
C11_ReturnsIffAcyclic ==
    /\ [](Cyclic(depTree) => pc # "done")
    /\ (~Cyclic(depTree)) ~> (pc = "done")
    /\ []((pc = "done") =>
            /\ roots = [k \in 1..Len(depTree.top) |-> ObjId(depTree.top[k])]
            /\ edges = TopOccurrenceEdges(depTree, 1))

\* The recursion went round a cycle: an object is being visited inside its
\* own visit, after the graph already held its node.
C11_Witness ==
    /\ pc = "build"
    /\ Cyclic(depTree)
    /\ \E i, j \in 1..Len(stack) : i < j /\ stack[i].obj = stack[j].obj
    /\ Len(edges) + Len(roots) > Len(nodes)

\* ------------------------------------------- strings (sbom/generator.ts)
LowerCase ==
    {"a", "b", "c", "d", "e", "f", "g", "h", "i", "j", "k", "l", "m",
     "n", "o", "p", "q", "r", "s", "t", "u", "v", "w", "x", "y", "z"}
UpperCase ==
    {"A", "B", "C", "D", "E", "F", "G", "H", "I", "J", "K", "L", "M",
     "N", "O", "P", "Q", "R", "S", "T", "U", "V", "W", "X", "Y", "Z"}
Digits == {"0", "1", "2", "3", "4", "5", "6", "7", "8", "9"}

StartsWith(s, prefix) ==
    Len(s) >= Len(prefix) /\ SubSeq(s, 1, Len(prefix)) = prefix

\* Position of the first occurrence of the character c in s, 0 if none.
IndexOf(s, c) ==
    IF \E i \in 1..Len(s) : SubSeq(s, i, i) = c
    THEN CHOOSE i \in 1..Len(s) :
             /\ SubSeq(s, i, i) = c
             /\ \A j \in 1..(i - 1) : SubSeq(s, j, j) # c
    ELSE 0

\* String.prototype.split with a one-character separator.
RECURSIVE Split(_, _)
Split(s, sep) ==
    IF IndexOf(s, sep) = 0 THEN << s >>
    ELSE << SubSeq(s, 1, IndexOf(s, sep) - 1) >>
         \o Split(SubSeq(s, IndexOf(s, sep) + 1, Len(s)), sep)

\* encodeURIComponent leaves A-Z a-z 0-9 - _ . ! ~ * ' ( ) alone and writes
\* every other character as the %XX of its UTF-8 bytes.
UriUnreserved ==
    LowerCase \cup UpperCase \cup Digits \cup {"-", "_", ".", "!", "~", "*", "'", "(", ")"}
PercentCode ==
    [c \in {"@", "/", "%", "+", " "} |->
        CASE c = "@" -> "%40"
          [] c = "/" -> "%2F"
          [] c = "%" -> "%25"
          [] c = "+" -> "%2B"
          [] c = " " -> "%20"]

RECURSIVE encodeURIComponent(_)
encodeURIComponent(s) ==
    IF s = "" THEN ""
    ELSE (IF Head(s) \in UriUnreserved THEN Head(s) ELSE PercentCode[Head(s)])
         \o encodeURIComponent(Tail(s))

\* `value ?? ''` for an element of a destructured array.
OrEmpty(parts, k) == IF k <= Len(parts) THEN parts[k] ELSE ""

\* A reference whose scope segment drops the leading '@' before encoding.
createBomRefScopeStripped(name, version) ==
    IF StartsWith(name, "@")
    THEN LET parts == Split(name, "/")
         IN  "pkg:npm/" \o encodeURIComponent(Tail(OrEmpty(parts, 1))) \o "/"
                        \o encodeURIComponent(OrEmpty(parts, 2)) \o "@" \o version
    ELSE "pkg:npm/" \o encodeURIComponent(name) \o "@" \o version

\* A reference that keeps only the scope of a scoped name.
createBomRefScopeOnly(name, version) ==
    IF StartsWith(name, "@")
    THEN "pkg:npm/" \o encodeURIComponent(OrEmpty(Split(name, "/"), 1)) \o "@" \o version
    ELSE "pkg:npm/" \o encodeURIComponent(name) \o "@" \o version

\* createBomRef (lines 415-424).
createBomRef(name, version) ==
    IF StartsWith(name, "@")
    THEN LET parts == Split(name, "/")
             encodedScope == encodeURIComponent(OrEmpty(parts, 1))
             encodedName == encodeURIComponent(OrEmpty(parts, 2))
         IN  "pkg:npm/" \o encodedScope \o "/" \o encodedName \o "@" \o version
    ELSE "pkg:npm/" \o encodeURIComponent(name) \o "@" \o version

\* createKey (lines 426-428).
createKey(name, version) == name \o "@" \o version

\* replace(/[^A-Za-z0-9-.]+/g, '-'): every maximal run of other characters
\* becomes one '-'.  inRun: the previous character was part of such a run.
SpdxIdChars == LowerCase \cup UpperCase \cup Digits \cup {"-", "."}
RECURSIVE ReplaceOtherRuns(_, _)
ReplaceOtherRuns(s, inRun) ==
    IF s = "" THEN ""
    ELSE IF Head(s) \in SpdxIdChars
         THEN Head(s) \o ReplaceOtherRuns(Tail(s), FALSE)
         ELSE (IF inRun THEN "" ELSE "-") \o ReplaceOtherRuns(Tail(s), TRUE)

\* replace(/-+/g, '-').
RECURSIVE CollapseDashes(_, _)
CollapseDashes(s, inRun) ==
    IF s = "" THEN ""
    ELSE IF Head(s) = "-"
         THEN (IF inRun THEN "" ELSE "-") \o CollapseDashes(Tail(s), TRUE)
         ELSE Head(s) \o CollapseDashes(Tail(s), FALSE)

\* createSpdxRef (lines 430-435).
createSpdxRef(name, version) ==
    "SPDXRef-" \o CollapseDashes(ReplaceOtherRuns(name \o "-" \o version, FALSE), FALSE)

\* --------------------------------------------- sbom/generator.ts: generateSbom
\* `x ?? d`.
Coalesce(x, d) == IF x = Undefined THEN d ELSE x

IsDirectPackage(pkg) == pkg.isDirect
IsDevPackage(pkg) == pkg.isDevDependency

\* buildStats (lines 76-84).
buildStats(packages) ==
    [totalComponents |-> Len(packages),
     directDependencies |-> Len(SelectSeq(packages, IsDirectPackage)),
     devDependencies |-> Len(SelectSeq(packages, IsDevPackage))]

\* buildRootComponent (lines 161-177).
buildRootComponent(tree, options) ==
    LET componentName == Coalesce(options.metadata.componentName, tree.rootName)
        componentVersion == Coalesce(options.metadata.componentVersion, tree.rootVersion)
    IN  [bomRef |-> createBomRef(componentName, componentVersion),
         type |-> "application",
         name |-> componentName,
         version |-> componentVersion,
         purl |-> createBomRef(componentName, componentVersion)]

\* The PackageMetadata of lines 185-189, with the key it is stored under.
PackageMetadata(key, pkg) ==
    [id |-> key, info |-> pkg,
     bomRef |-> createBomRef(pkg.name, pkg.version),
     spdxRef |-> createSpdxRef(pkg.name, pkg.version)]

\* buildPackageMetadataMap (lines 179-195): the loop from the k-th package on.
RECURSIVE MetadataByKey(_, _, _)
MetadataByKey(packages, k, byKey) ==
    IF k > Len(packages) THEN byKey
    ELSE LET key == createKey(packages[k].name, packages[k].version)
         IN  MetadataByKey(packages, k + 1,
                           MapSet(byKey, key, PackageMetadata(key, packages[k])))

RECURSIVE MetadataByBomRef(_, _, _)
MetadataByBomRef(packages, k, byBomRef) ==
    IF k > Len(packages) THEN byBomRef
    ELSE LET bomRef == createBomRef(packages[k].name, packages[k].version)
         IN  MetadataByBomRef(packages, k + 1,
                              MapSet(byBomRef, bomRef, PackageMetadata(bomRef, packages[k])))

buildPackageMetadataMap(packages) ==
    [byKey |-> MetadataByKey(packages, 1, << >>),
     byBomRef |-> MetadataByBomRef(packages, 1, << >>)]

\* A scope that marks the production packages as optional.
ScopeInverted(info) == IF info.isDevDependency THEN "required" ELSE "optional"

\* Line 208.
Scope(info) == IF info.isDevDependency THEN "optional" ELSE "required"

\* buildComponentsArray (lines 197-219).
buildComponentsArray(byKey) ==
    [k \in 1..Len(byKey) |->
        [bomRef |-> byKey[k].bomRef,
         type |-> "library",
         name |-> byKey[k].info.name,
         version |-> byKey[k].info.version,
         purl |-> byKey[k].bomRef,
         scope |-> Scope(byKey[k].info),
         direct |-> byKey[k].info.isDirect]]

\* A list that takes a value it already holds.
AddAlways(set, x) == Append(set, x)

\* Set.prototype.add: a Set keeps insertion order and holds a value once.
SetAdd(set, x) == IF Includes(set, x) THEN set ELSE Append(set, x)

\* buildDependencyGraph and traverseNode (lines 221-250) from occurrence i on:
\* the reference of the occurrence is added to the Set of the node above it,
\* then traverseNode gives it an entry of its own unless it has one.
RECURSIVE traverseNode(_, _, _)
traverseNode(tree, i, g) ==
    IF i > tree.n THEN g
    ELSE LET above == tree.up[i]
             parentRef == IF above = 0
                          THEN createBomRef(tree.rootName, tree.rootVersion)
                          ELSE createBomRef(tree.name[above], tree.version[above])
             nodeRef == createBomRef(tree.name[i], tree.version[i])
             g1 == [g EXCEPT ![MapIndex(g, parentRef)].deps = SetAdd(@, nodeRef)]
             g2 == IF MapHas(g1, nodeRef) THEN g1
                   ELSE Append(g1, [id |-> nodeRef, deps |-> << >>])
         IN  traverseNode(tree, i + 1, g2)

buildDependencyGraph(tree) ==
    traverseNode(tree, 1,
        << [id |-> createBomRef(tree.rootName, tree.rootVersion), deps |-> << >>] >>)

\* buildDependencyEntries (lines 252-261).
buildDependencyEntries(g) ==
    [k \in 1..Len(g) |-> [ref |-> g[k].id, dependsOn |-> g[k].deps]]

\* A rating that passes the severity of the finding on as it is.
RatingAsGiven(severity) == severity

\* The ratingsMap lookup of lines 267-272 and 284.
Rating(severity) ==
    CASE severity = "low" -> "low"
      [] severity = "moderate" -> "medium"
      [] severity = "high" -> "high"
      [] severity = "critical" -> "critical"
      [] OTHER -> "unknown"

\* buildCycloneDxVulnerabilities (lines 263-301).
buildCycloneDxVulnerabilities(vulnerabilities, byKey) ==
    [k \in 1..Len(vulnerabilities) |->
        LET vuln == vulnerabilities[k]
            key == createKey(vuln.package, vuln.version)
        IN  [id |-> vuln.id,
             ratings |-> << [severity |-> Rating(vuln.severity)] >>,
             details |-> vuln.description,
             affects |-> IF MapHas(byKey, key)
                         THEN << [ref |-> MapGet(byKey, key).bomRef] >>
                         ELSE << >>]]

\* A document whose component references carry the serial number.
buildCycloneDxBomSerialRefs(scanResult, generatedAt, options, uuid) ==
    LET tree == scanResult.dependencies
        components == buildComponentsArray(buildPackageMetadataMap(tree.packages).byKey)
    IN  [bomFormat |-> "CycloneDX",
         serialNumber |-> "urn:uuid:" \o uuid,
         metadata |-> [timestamp |-> generatedAt,
                       component |-> buildRootComponent(tree, options)],
         components |-> [k \in 1..Len(components) |->
                            [components[k] EXCEPT !.bomRef = @ \o "?serial=" \o uuid]],
         dependencies |-> buildDependencyEntries(buildDependencyGraph(tree))]

\* buildCycloneDxBom (lines 86-127).
buildCycloneDxBom(scanResult, generatedAt, options, uuid) ==
    LET tree == scanResult.dependencies
        packageMap == buildPackageMetadataMap(tree.packages)
        bom == [bomFormat |-> "CycloneDX",
                serialNumber |-> "urn:uuid:" \o uuid,
                metadata |-> [timestamp |-> generatedAt,
                              component |-> buildRootComponent(tree, options)],
                components |-> buildComponentsArray(packageMap.byKey),
                dependencies |-> buildDependencyEntries(buildDependencyGraph(tree))]
    IN  IF options.attachVulnerabilities /\ Len(scanResult.vulnerabilities) > 0
        THEN bom @@ ("vulnerabilities" :>
                 buildCycloneDxVulnerabilities(scanResult.vulnerabilities, packageMap.byKey))
        ELSE bom

\* buildSpdxPackages (lines 303-345).
buildSpdxPackages(tree, byKey, options) ==
    LET rootName == Coalesce(options.metadata.componentName, tree.rootName)
        rootVersion == Coalesce(options.metadata.componentVersion, tree.rootVersion)
    IN  << [name |-> rootName,
            SPDXID |-> createSpdxRef(rootName, rootVersion),
            versionInfo |-> rootVersion,
            primaryPackagePurpose |-> "APPLICATION"] >>
        \o [k \in 1..Len(byKey) |->
              [name |-> byKey[k].info.name,
               SPDXID |-> byKey[k].spdxRef,
               versionInfo |-> byKey[k].info.version,
               primaryPackagePurpose |-> "LIBRARY",
               externalRefs |-> << [referenceCategory |-> "PACKAGE-MANAGER",
                                    referenceType |-> "purl",
                                    referenceLocator |->
                                        createBomRef(byKey[k].info.name,
                                                     byKey[k].info.version)] >>]]

\* A lookup that falls back to the reference it was asked for.
SpdxRefOrBomRef(byBomRef, ref) ==
    IF MapHas(byBomRef, ref) THEN MapGet(byBomRef, ref).spdxRef ELSE ref

\* `packageMap.get(ref)?.spdxRef` (lines 364-367 and 374).
SpdxRefOf(byBomRef, ref) ==
    IF MapHas(byBomRef, ref) THEN MapGet(byBomRef, ref).spdxRef ELSE Undefined

\* The inner loop of buildSpdxRelationships (lines 373-383), from the k-th
\* child on.
RECURSIVE dependsOnRelationships(_, _, _, _)
dependsOnRelationships(parentSpdx, dependencies, k, byBomRef) ==
    IF k > Len(dependencies) THEN << >>
    ELSE LET childSpdx == SpdxRefOf(byBomRef, dependencies[k])
         IN  (IF Truthy(childSpdx)
              THEN << [spdxElementId |-> parentSpdx,
                       relationshipType |-> "DEPENDS_ON",
                       relatedSpdxElement |-> childSpdx] >>
              ELSE << >>)
             \o dependsOnRelationships(parentSpdx, dependencies, k + 1, byBomRef)

\* The outer loop (lines 363-384), from the k-th entry of the graph on.
RECURSIVE graphRelationships(_, _, _, _, _)
graphRelationships(g, k, rootRef, rootBomRef, byBomRef) ==
    IF k > Len(g) THEN << >>
    ELSE LET parentSpdx == IF g[k].id = rootBomRef THEN rootRef
                           ELSE SpdxRefOf(byBomRef, g[k].id)
         IN  (IF Truthy(parentSpdx)
              THEN dependsOnRelationships(parentSpdx, g[k].deps, 1, byBomRef)
              ELSE << >>)
             \o graphRelationships(g, k + 1, rootRef, rootBomRef, byBomRef)

\* buildSpdxRelationships (lines 347-389).
buildSpdxRelationships(tree, byBomRef, g, options) ==
    LET rootName == Coalesce(options.metadata.componentName, tree.rootName)
        rootVersion == Coalesce(options.metadata.componentVersion, tree.rootVersion)
        rootRef == createSpdxRef(rootName, rootVersion)
        rootBomRef == createBomRef(tree.rootName, tree.rootVersion)
    IN  << [spdxElementId |-> "SPDXRef-DOCUMENT",
            relationshipType |-> "DESCRIBES",
            relatedSpdxElement |-> rootRef] >>
        \o graphRelationships(g, 1, rootRef, rootBomRef, byBomRef)

\* Annotations for every finding, whether or not the package set holds it.
RECURSIVE buildSpdxAnnotationsForAll(_, _, _, _)
buildSpdxAnnotationsForAll(vulnerabilities, k, byKey, generatedAt) ==
    IF k > Len(vulnerabilities) THEN << >>
    ELSE LET vuln == vulnerabilities[k]
         IN  << [spdxElementId |-> createSpdxRef(vuln.package, vuln.version),
                 annotationType |-> "REVIEW",
                 comment |-> vuln.id \o " (" \o vuln.severity \o ") - "
                                     \o vuln.description,
                 annotationDate |-> generatedAt] >>
             \o buildSpdxAnnotationsForAll(vulnerabilities, k + 1, byKey, generatedAt)

\* buildSpdxAnnotations (lines 391-413), from the k-th finding on.
RECURSIVE buildSpdxAnnotations(_, _, _, _)
buildSpdxAnnotations(vulnerabilities, k, byKey, generatedAt) ==
    IF k > Len(vulnerabilities) THEN << >>
    ELSE LET vuln == vulnerabilities[k]
             key == createKey(vuln.package, vuln.version)
         IN  (IF MapHas(byKey, key)
              THEN << [spdxElementId |-> MapGet(byKey, key).spdxRef,
                       annotationType |-> "REVIEW",
                       comment |-> vuln.id \o " (" \o vuln.severity \o ") - "
                                           \o vuln.description,
                       annotationDate |-> generatedAt] >>
              ELSE << >>)
             \o buildSpdxAnnotations(vulnerabilities, k + 1, byKey, generatedAt)

\* buildSpdxDocument (lines 129-159).
buildSpdxDocument(scanResult, generatedAt, options, uuid) ==
    LET tree == scanResult.dependencies
        packageMap == buildPackageMetadataMap(tree.packages)
    IN  [SPDXID |-> "SPDXRef-DOCUMENT",
         name |-> Coalesce(options.metadata.componentName, tree.rootName) \o " SBOM",
         documentNamespace |-> "urn:uuid:" \o uuid,
         creationInfo |-> [created |-> generatedAt],
         packages |-> buildSpdxPackages(tree, packageMap.byKey, options),
         relationships |-> buildSpdxRelationships(tree, packageMap.byBomRef,
                                                  buildDependencyGraph(tree), options),
         annotations |-> IF options.attachVulnerabilities
                         THEN buildSpdxAnnotations(scanResult.vulnerabilities, 1,
                                                   packageMap.byKey, generatedAt)
                         ELSE << >>]

\* generateSbom lines 48-73, for the scan result of line 43, the instant of
\* line 49 and the identifier randomUUID returns.
generateSbom(scanResult, options, generatedAt, uuid) ==
    LET format == Coalesce(options.format, "cyclonedx")
    IN  [format |-> format,
         document |-> IF format = "cyclonedx"
                      THEN buildCycloneDxBom(scanResult, generatedAt, options, uuid)
                      ELSE buildSpdxDocument(scanResult, generatedAt, options, uuid),
         generatedAt |-> generatedAt,
         stats |-> buildStats(scanResult.dependencies.packages),
         vulnerabilities |-> scanResult.vulnerabilities,
         embeddedVulnerabilities |->
             (options.attachVulnerabilities /\ Len(scanResult.vulnerabilities) > 0)]

\* queryNpmAudit (part_008 lines 234-256) reports no finding.
queryNpmAudit(tree) == << >>

\* The options of one call: SbomGenerateOptions (sbom/types.ts lines 5-16).
NoMetadata == [componentName |-> Undefined, componentVersion |-> Undefined]
MetadataOverride == [componentName |-> "svc", componentVersion |-> "2.0.0"]
SbomOptions(includeDev) ==
    { [format |-> f, includeDevDependencies |-> includeDev,
       attachVulnerabilities |-> at, metadata |-> md] :
        f \in {Undefined, "spdx"}, at \in BOOLEAN, md \in {NoMetadata, MetadataOverride} }

\* What `new Date()` and randomUUID() return in the first call and in a later
\* one: the clock has moved on and the identifier is fresh.
Clock ==
    << [generatedAt |-> "2026-01-01T00:00:00.000Z",
        uuid |-> "11111111-1111-4111-8111-111111111111"],
       [generatedAt |-> "2026-01-02T00:00:00.000Z",
        uuid |-> "22222222-2222-4222-8222-222222222222"] >>
Now(previous) == IF previous.op = "generateSbom" THEN Clock[2] ELSE Clock[1]

\* generateSbom (lines 39-74) on a project on disk.
GenerateSbom ==
    /\ pc = "scan"
    /\ \E options \in SbomOptions(project.includeDevDependencies) :
         LET now == Now(result)
             tree == buildDependencyTree(project.packageJson, project.lockfile,
                                         options.includeDevDependencies)
             scanResult == [dependencies |-> tree, vulnerabilities |-> queryNpmAudit(tree)]
         IN  /\ depTree' = tree
             /\ result' = [op |-> "generateSbom", arg |-> options,
                           value |-> generateSbom(scanResult, options,
                                                 now.generatedAt, now.uuid)]
    /\ pc' = "build"
    /\ UNCHANGED <<project, stack, cursor, nodes, edges, roots>>

SpecScanSbom == InitScan /\ [][GenerateSbom]_vars

\* ---------------------------------- generateSbom on a given scan result
\* The scan result may come from any scanner (the unit tests replace
\* scanNpmProject): any valid tree, here with package names that exercise the
\* reference derivations, and a packages list that names each pair once and
\* may leave one pair of the tree out.
SbomName == [name \in PackageNames |->
                CASE name = "a" -> "@s/p"
                  [] name = "b" -> "a_b"
                  [] name = "c" -> "a-b"]

Rename(t) == [t EXCEPT !.name = [i \in 1..t.n |-> SbomName[t.name[i]]]]

\* One PackageInfo per pair of the tree that is not left out, in the order in
\* which the pairs are first met.
RECURSIVE ListPackages(_, _, _, _, _)
ListPackages(t, i, dev, omitted, packages) ==
    IF i > t.n THEN packages
    ELSE IF OccId(t, i) \in PackageKeys(packages) \cup omitted
         THEN ListPackages(t, i + 1, dev, omitted, packages)
         ELSE ListPackages(t, i + 1, dev, omitted,
                  Append(packages,
                         PackageInfo(t.name[i], t.version[i], OccId(t, i) \in dev,
                                     \E j \in 1..t.n : t.up[j] = 0 /\ OccId(t, j) = OccId(t, i))))

\* No pair marked, one pair marked as a dev dependency, or one pair left out.
Markings(keys) ==
    { [dev |-> {}, omitted |-> {}] }
    \cup { [dev |-> {x}, omitted |-> {}] : x \in keys }
    \cup { [dev |-> {}, omitted |-> {x}] : x \in keys }

ScannedTrees ==
    UNION { LET t == Rename(u)
            IN  { [t EXCEPT !.packages = ListPackages(t, 1, m.dev, m.omitted, << >>)] :
                    m \in Markings({ OccId(t, i) : i \in 1..t.n }) } :
            u \in UNION { TreesOfSize(n) : n \in 0..(MaxOcc - 2) } }

InitSbom ==
    /\ project = NoProject
    /\ depTree \in ScannedTrees
    /\ pc = "build"
    /\ stack = << >>
    /\ cursor = 1
    /\ nodes = << >>
    /\ edges = << >>
    /\ roots = << >>
    /\ result = [op |-> "none", arg |-> "", value |-> << >>]

\* generateSbom (lines 39-74) with scanNpmProject returning the given result;
\* a later call for the same project repeats the options of the first.
GenerateSbomOfScan ==
    /\ pc = "build"
    /\ \E options \in { o \in SbomOptions(FALSE) :
                            result.op = "generateSbom" => o = result.arg } :
         LET now == Now(result)
             scanResult == [dependencies |-> depTree,
                            vulnerabilities |-> queryNpmAudit(depTree)]
         IN  result' = [op |-> "generateSbom", arg |-> options,
                        value |-> generateSbom(scanResult, options,
                                               now.generatedAt, now.uuid)]
    /\ UNCHANGED <<project, depTree, pc, stack, cursor, nodes, edges, roots>>

SpecSbom == InitSbom /\ [][GenerateSbomOfScan]_vars

\* ------------------------------------------------------- claims (SBOM)
Generated == result.op = "generateSbom"
IsCycloneDx == Generated /\ result.value.format = "cyclonedx"
IsSpdx == Generated /\ result.value.format = "spdx"
IsLibrary(pkg) == pkg.primaryPackagePurpose = "LIBRARY"

\* C12: stats.totalComponents equals the number of entries of the CycloneDX
\* components array, and the number of library packages of the SPDX packages
\* array, for every scan result the scanner produces.
C12_StatsAgreeWithDocument ==
    /\ IsCycloneDx =>
         result.value.stats.totalComponents = Len(result.value.document.components)
    /\ IsSpdx =>
         result.value.stats.totalComponents =
             Len(SelectSeq(result.value.document.packages, IsLibrary))

\* The isDevDependency flags that the entries of one pair carry in packages.
FlagsOf(packages, name, version) ==
    { packages[k].isDevDependency :
        k \in { j \in 1..Len(packages) :
                  packages[j].name = name /\ packages[j].version = version } }

PackagePairsOf(packages) ==
    { <<packages[k].name, packages[k].version>> : k \in 1..Len(packages) }

\* C13: the CycloneDX components array has exactly one entry per distinct
\* (name, version) pair of tree.packages; bomRef and purl of an entry are the
\* package reference of its pair; scope is 'optional' exactly when the
\* package's isDevDependency flag is true, 'required' otherwise.
C13_OneComponentPerPair ==
    IsCycloneDx =>
        LET components == result.value.document.components
            packages == depTree.packages
        IN  /\ \A pr \in PackagePairsOf(packages) :
                 Cardinality({ k \in 1..Len(components) :
                     components[k].name = pr[1] /\ components[k].version = pr[2] }) = 1
            /\ Len(components) = Cardinality(PackagePairsOf(packages))
            /\ \A k \in 1..Len(components) :
                 LET c == components[k]
                 IN  /\ c.bomRef = createBomRef(c.name, c.version)
                     /\ c.purl = c.bomRef
                     /\ c.scope \in {"optional", "required"}
                     /\ \A flag \in BOOLEAN :
                          FlagsOf(packages, c.name, c.version) = {flag} =>
                              (c.scope = "optional") = flag

\* A dev dependency next to a production dependency, each listed once.
C13_Witness ==
    /\ IsCycloneDx
    /\ \E j, k \in 1..Len(result.value.document.components) :
         LET c == result.value.document.components[j]
             d == result.value.document.components[k]
         IN  /\ c.scope = "optional" /\ d.scope = "required"
             /\ FlagsOf(depTree.packages, c.name, c.version) = {TRUE}
             /\ FlagsOf(depTree.packages, d.name, d.version) = {FALSE}

\* The references of the occurrences in the dependencies maps of the
\* occurrences of the package with reference ref (of the top level, for the
\* reference of the project).
ChildRefs(t, ref) ==
    { createBomRef(t.name[i], t.version[i]) :
        i \in { j \in Occurrences(t) :
                  IF t.up[j] = 0
                  THEN ref = createBomRef(t.rootName, t.rootVersion)
                  ELSE ref = createBomRef(t.name[t.up[j]], t.version[t.up[j]]) } }

TreeRefs(t) ==
    { createBomRef(t.name[i], t.version[i]) : i \in Occurrences(t) }

\* C14: the CycloneDX dependencies array has exactly one entry per distinct
\* package of the tree plus one for the project root; the root entry lists
\* exactly the top-level dependencies, every other entry exactly the packages
\* that occur as children of its package anywhere in the tree, and no
\* dependsOn list holds a reference twice.
C14_DependencyEntries ==
    IsCycloneDx =>
        LET dependencies == result.value.document.dependencies
            rootRef == createBomRef(depTree.rootName, depTree.rootVersion)
        IN  /\ { dependencies[k].ref : k \in 1..Len(dependencies) }
                 = {rootRef} \cup TreeRefs(depTree)
            /\ Len(dependencies) = Cardinality(TreePairs(depTree)) + 1
            /\ \A k \in 1..Len(dependencies) :
                 /\ SeqSet(dependencies[k].dependsOn)
                      = ChildRefs(depTree, dependencies[k].ref)
                 /\ NoRepeat(dependencies[k].dependsOn)

\* A package that has dependencies of its own occurs under two parents.
C14_Witness ==
    /\ IsCycloneDx
    /\ \E i, j \in Occurrences(depTree) :
         /\ i < j
         /\ depTree.up[i] # 0 /\ depTree.up[j] # 0
         /\ OccId(depTree, i) = OccId(depTree, j)
         /\ OccId(depTree, depTree.up[i]) = OccId(depTree, depTree.up[j])
    /\ \E k \in 1..Len(result.value.document.dependencies) :
         Len(result.value.document.dependencies[k].dependsOn) > 1

\* The references a relationship endpoint resolves from: the packages list,
\* and for a parent also the reference of the project.
PackageRefs(t) ==
    { createBomRef(pr[1], pr[2]) : pr \in PackagePairsOf(t.packages) }
ProjectRef(t) == createBomRef(t.rootName, t.rootVersion)

\* The parent-to-child edges of the tree whose two endpoints resolve.
ResolvedEdges(t) ==
    { e \in (({ProjectRef(t)} \cup TreeRefs(t)) \X TreeRefs(t)) :
        /\ e[2] \in ChildRefs(t, e[1])
        /\ e[1] \in {ProjectRef(t)} \cup PackageRefs(t)
        /\ e[2] \in PackageRefs(t) }

\* The SPDX id that belongs to a reference: that of the root package of the
\* document for the project, that of its package otherwise.
SpdxIdOf(t, document, ref) ==
    IF ref = ProjectRef(t) THEN document.packages[1].SPDXID
    ELSE LET pr == CHOOSE q \in PackagePairsOf(t.packages) : createBomRef(q[1], q[2]) = ref
         IN  createSpdxRef(pr[1], pr[2])

IsDependsOn(relationship) == relationship.relationshipType = "DEPENDS_ON"

\* C15: the SPDX relationships array starts with DESCRIBES from
\* SPDXRef-DOCUMENT to the root package, followed by one DEPENDS_ON per
\* distinct parent-to-child edge whose two endpoints resolve; an edge with an
\* unresolvable endpoint is dropped; so both ends of every DEPENDS_ON are
\* SPDXIDs of the packages array of the same document, with or without
\* componentName/componentVersion overrides.
C15_RelationshipsResolve ==
    IsSpdx =>
        LET document == result.value.document
            relationships == document.relationships
            ids == { document.packages[k].SPDXID : k \in 1..Len(document.packages) }
            dependsOn == SelectSeq(relationships, IsDependsOn)
        IN  /\ document.packages[1].primaryPackagePurpose = "APPLICATION"
            /\ relationships[1] = [spdxElementId |-> "SPDXRef-DOCUMENT",
                                   relationshipType |-> "DESCRIBES",
                                   relatedSpdxElement |-> document.packages[1].SPDXID]
            /\ relationships = << relationships[1] >> \o dependsOn
            /\ Len(dependsOn) = Cardinality(ResolvedEdges(depTree))
            /\ { <<dependsOn[k].spdxElementId, dependsOn[k].relatedSpdxElement>> :
                   k \in 1..Len(dependsOn) }
                 = { <<SpdxIdOf(depTree, document, e[1]), SpdxIdOf(depTree, document, e[2])>> :
                       e \in ResolvedEdges(depTree) }
            /\ \A k \in 1..Len(dependsOn) :
                 /\ dependsOn[k].spdxElementId \in ids
                 /\ dependsOn[k].relatedSpdxElement \in ids

\* With overrides supplied, an edge from the project was kept and an edge to
\* a package that the packages list lacks was dropped.
C15_Witness ==
    /\ IsSpdx
    /\ result.arg.metadata = MetadataOverride
    /\ \E k \in 1..Len(result.value.document.relationships) :
         /\ IsDependsOn(result.value.document.relationships[k])
         /\ result.value.document.relationships[k].spdxElementId
              = createSpdxRef("svc", "2.0.0")
    /\ \E i \in Occurrences(depTree) :
         /\ depTree.up[i] # 0
         /\ createBomRef(depTree.name[i], depTree.version[i]) \notin PackageRefs(depTree)
         /\ createBomRef(depTree.name[depTree.up[i]], depTree.version[depTree.up[i]])
              \in PackageRefs(depTree)

\* The scan result and the two documents generateSbom renders from it for the
\* options, instant and identifier of the last call.
LastScan == [dependencies |-> depTree, vulnerabilities |-> result.value.vulnerabilities]
CycloneDxOfLast ==
    IF IsCycloneDx THEN result.value.document
    ELSE buildCycloneDxBom(LastScan, result.value.generatedAt, result.arg, "")
SpdxOfLast ==
    IF IsSpdx THEN result.value.document
    ELSE buildSpdxDocument(LastScan, result.value.generatedAt, result.arg, "")

\* C16: for a tree whose packages list enumerates every (name, version) pair
\* of the tree, SPDX has a DEPENDS_ON relationship from p to c if and only if
\* the CycloneDX dependencies entry of p lists c, where p and c range over the
\* packages and the project and each is named by its bom-ref on one side and
\* its SPDX ref on the other.
C16_SameEdges ==
    (Generated /\ PackagePairsOf(depTree.packages) = TreePairs(depTree)) =>
        LET refs == {ProjectRef(depTree)} \cup PackageRefs(depTree)
            spdx == SpdxOfLast
            dependencies == CycloneDxOfLast.dependencies
        IN  \A p, c \in refs :
                (\E k \in 1..Len(spdx.relationships) :
                    /\ IsDependsOn(spdx.relationships[k])
                    /\ spdx.relationships[k].spdxElementId = SpdxIdOf(depTree, spdx, p)
                    /\ spdx.relationships[k].relatedSpdxElement = SpdxIdOf(depTree, spdx, c))
                <=>
                (\E k \in 1..Len(dependencies) :
                    /\ dependencies[k].ref = p
                    /\ Includes(dependencies[k].dependsOn, c))

\* C17: in every SPDX document that is produced, two packages entries for
\* distinct (name, version) pairs, the root included, have distinct SPDXIDs.
C17_SpdxIdsDistinct ==
    IsSpdx =>
        LET packages == result.value.document.packages
        IN  \A j, k \in 1..Len(packages) :
                <<packages[j].name, packages[j].versionInfo>>
                    # <<packages[k].name, packages[k].versionInfo>>
                => packages[j].SPDXID # packages[k].SPDXID

\* ------------------------------------- the reference derivations by themselves
\* npm package names, unscoped and of the form @scope/name, and versions.
IdNames ==
    {"a", "lodash", "left-pad", "a_b", "a-b", "a.b",
     "@s/p", "@s/a_b", "@s/a-b", "@types/node", "@a-b/c", "@s.t/p"}
IdVersions == {"1", "4.17.21", "2.0.0-rc.1"}

InitIdentity ==
    /\ project = NoProject
    /\ depTree = EmptyTree
    /\ pc = "build"
    /\ stack = << >>
    /\ cursor = 1
    /\ nodes = << >>
    /\ edges = << >>
    /\ roots = << >>
    /\ result = [op |-> "none", arg |-> "", value |-> << >>]

CreateBomRef ==
    /\ \E name \in IdNames, version \in IdVersions :
         result' = [op |-> "createBomRef", arg |-> <<name, version>>,
                    value |-> createBomRef(name, version)]
    /\ UNCHANGED <<project, depTree, pc, stack, cursor, nodes, edges, roots>>

CreateSpdxRef ==
    /\ \E name \in IdNames, version \in IdVersions :
         result' = [op |-> "createSpdxRef", arg |-> <<name, version>>,
                    value |-> createSpdxRef(name, version)]
    /\ UNCHANGED <<project, depTree, pc, stack, cursor, nodes, edges, roots>>

CreateKey ==
    /\ \E name \in IdNames, version \in IdVersions :
         result' = [op |-> "createKey", arg |-> <<name, version>>,
                    value |-> createKey(name, version)]
    /\ UNCHANGED <<project, depTree, pc, stack, cursor, nodes, edges, roots>>

NextIdentity ==
    \/ CreateBomRef
    \/ CreateSpdxRef
    \/ CreateKey

SpecIdentity == InitIdentity /\ [][NextIdentity]_vars

\* The parts of a name: the scope without its '@' and the package name of
\* @scope/pkgname.
ScopeOf(name) == SubSeq(name, 2, IndexOf(name, "/") - 1)
PkgNameOf(name) == SubSeq(name, IndexOf(name, "/") + 1, Len(name))

Contains(s, sub) ==
    \E i \in 1..(Len(s) - Len(sub) + 1) : SubSeq(s, i, i + Len(sub) - 1) = sub

\* The scope segment of a reference: what stands between "pkg:npm/" and the
\* next '/'.
ScopeSegment(ref) == Split(SubSeq(ref, Len("pkg:npm/") + 1, Len(ref)), "/")[1]

\* C18 as stated: pkg:npm/<encoded name>@<version> for an unscoped name; for
\* @scope/pkgname, pkg:npm/<encoded scope>/<encoded pkgname>@<version> with
\* the scope taken without its leading '@', so that the segment holds neither
\* '@' nor '%40'.
C18_ScopeStripped ==
    result.op = "createBomRef" =>
        LET name == result.arg[1]
            version == result.arg[2]
        IN  IF StartsWith(name, "@")
            THEN /\ result.value = "pkg:npm/" \o encodeURIComponent(ScopeOf(name)) \o "/"
                                   \o encodeURIComponent(PkgNameOf(name)) \o "@" \o version
                 /\ ~Contains(ScopeSegment(result.value), "@")
                 /\ ~Contains(ScopeSegment(result.value), "%40")
            ELSE result.value = "pkg:npm/" \o encodeURIComponent(name) \o "@" \o version

\* C18, amended: pkg:npm/<encoded name>@<version> for an unscoped name; for
\* @scope/pkgname, pkg:npm/<encoded scope>/<encoded pkgname>@<version> where
\* the scope is encoded together with its leading '@', so that the segment
\* starts with '%40' and holds no '@'.
C18_ScopeEncoded ==
    result.op = "createBomRef" =>
        LET name == result.arg[1]
            version == result.arg[2]
        IN  IF StartsWith(name, "@")
            THEN /\ result.value = "pkg:npm/" \o encodeURIComponent("@" \o ScopeOf(name)) \o "/"
                                   \o encodeURIComponent(PkgNameOf(name)) \o "@" \o version
                 /\ ScopeSegment(result.value) = "%40" \o encodeURIComponent(ScopeOf(name))
                 /\ ~Contains(ScopeSegment(result.value), "@")
            ELSE result.value = "pkg:npm/" \o encodeURIComponent(name) \o "@" \o version

\* The reference of a scoped name whose scope and package name both hold
\* characters besides letters was derived.
C18_Witness ==
    /\ result.op = "createBomRef"
    /\ result.arg = <<"@a-b/c", "2.0.0-rc.1">>
    /\ result.value = "pkg:npm/%40a-b/c@2.0.0-rc.1"

\* decodeURIComponent, for the codes encodeURIComponent writes.
RECURSIVE decodeURIComponent(_)
decodeURIComponent(s) ==
    IF s = "" THEN ""
    ELSE IF Head(s) = "%"
         THEN (CHOOSE c \in DOMAIN PercentCode : PercentCode[c] = SubSeq(s, 1, 3))
              \o decodeURIComponent(SubSeq(s, 4, Len(s)))
         ELSE Head(s) \o decodeURIComponent(Tail(s))

\* The (name, version) pair a package reference stands for: the version is
\* what follows the first '@' (an '@' of the name is written %40), the name
\* is the decoded segments before it, joined by '/'.
DecodePurl(purl) ==
    LET body == SubSeq(purl, Len("pkg:npm/") + 1, Len(purl))
        at == IndexOf(body, "@")
        segments == Split(SubSeq(body, 1, at - 1), "/")
        name == IF Len(segments) = 1 THEN decodeURIComponent(segments[1])
                ELSE decodeURIComponent(segments[1]) \o "/"
                     \o decodeURIComponent(segments[2])
    IN  << name, SubSeq(body, at + 1, Len(body)) >>

\* The round trip for the derivation by itself (SpecIdentity).
PurlRoundTrip ==
    result.op = "createBomRef" => DecodePurl(result.value) = result.arg

\* C19: the purl of every entry of the CycloneDX components array and of
\* every library package of the SPDX packages array decodes to the (name,
\* version) pair of that entry, for unscoped and for @scope/name names; so
\* entries for distinct pairs carry distinct purls.
C19_PurlDecodesToPair ==
    /\ IsCycloneDx =>
         LET components == result.value.document.components
         IN  /\ \A k \in 1..Len(components) :
                  DecodePurl(components[k].purl)
                      = <<components[k].name, components[k].version>>
             /\ \A j, k \in 1..Len(components) :
                  components[j].purl = components[k].purl => j = k
    /\ IsSpdx =>
         LET packages == SelectSeq(result.value.document.packages, IsLibrary)
         IN  /\ \A k \in 1..Len(packages) :
                  /\ Len(packages[k].externalRefs) = 1
                  /\ packages[k].externalRefs[1].referenceType = "purl"
                  /\ DecodePurl(packages[k].externalRefs[1].referenceLocator)
                       = <<packages[k].name, packages[k].versionInfo>>
             /\ \A j, k \in 1..Len(packages) :
                  packages[j].externalRefs[1].referenceLocator
                      = packages[k].externalRefs[1].referenceLocator => j = k

\* An SPDX document lists a scoped package at two versions next to an
\* unscoped one.
C19_Witness ==
    /\ IsSpdx
    /\ \E i, j, k \in 1..Len(result.value.document.packages) :
         LET packages == result.value.document.packages
         IN  /\ IsLibrary(packages[i]) /\ IsLibrary(packages[j]) /\ IsLibrary(packages[k])
             /\ packages[i].name = "@s/p" /\ packages[j].name = "@s/p"
             /\ packages[i].versionInfo # packages[j].versionInfo
             /\ ~StartsWith(packages[k].name, "@")

\* A document without its identifier and its timestamp.
Unstamped(value) ==
    IF value.format = "cyclonedx"
    THEN [value.document EXCEPT !.serialNumber = "", !.metadata.timestamp = ""]
    ELSE [value.document EXCEPT !.documentNamespace = "", !.creationInfo.created = ""]

\* C20: two generations from the same tree and options, with vulnerability
\* attachment disabled, give the same components and dependencies arrays
\* (CycloneDX) or packages and relationships arrays (SPDX), element for
\* element, and the same statistics; the documents differ in nothing but
\* serialNumber/documentNamespace and the timestamp fields.
C20_Step ==
    (/\ Generated
     /\ result'.op = "generateSbom"
     /\ result'.arg = result.arg
     /\ ~result.arg.attachVulnerabilities
     /\ depTree' = depTree)
    => /\ result'.value.format = result.value.format
       /\ IF result.value.format = "cyclonedx"
          THEN /\ result'.value.document.components = result.value.document.components
               /\ result'.value.document.dependencies = result.value.document.dependencies
          ELSE /\ result'.value.document.packages = result.value.document.packages
               /\ result'.value.document.relationships = result.value.document.relationships
       /\ Unstamped(result'.value) = Unstamped(result.value)
       /\ result'.value.stats = result.value.stats

C20_SameArrays == [][C20_Step]_vars

\* A second generation, with another identifier and a later instant, of a
\* document that has components and edges between them.
C20_Witness ==
    /\ Generated
    /\ ~result.arg.attachVulnerabilities
    /\ result.value.generatedAt = Clock[2].generatedAt
    /\ result.value.stats.totalComponents > 1
    /\ \E i \in Occurrences(depTree) : depTree.up[i] # 0

\* ------------------------------ generateSbom on a scan result with findings
\* A Vulnerability (part_008 lines 1-13) as far as the generator reads it.
Finding(id, package, version, severity) ==
    [id |-> id, package |-> package, version |-> version, severity |-> severity,
     description |-> "advisory " \o id]

\* The vulnerabilities lists a scanner reports: findings for packages of the
\* trees, for a version no tree holds, and for a package no tree holds.
FindingLists ==
    LET v1 == Finding("CVE-1", "a_b", "1", "low")
        v2 == Finding("CVE-2", "@s/p", "1", "moderate")
        v3 == Finding("CVE-3", "a-b", "1", "high")
        v4 == Finding("CVE-4", "ghost", "1", "critical")
        v5 == Finding("CVE-5", "@s/p", "3", "info")
    IN  { << >>, <<v1>>, <<v4>>, <<v5>>, <<v2, v3>>, <<v4, v1>>, <<v1, v1>>,
          <<v3, v5, v2>> }

AuditedTrees ==
    UNION { LET t == Rename(u)
            IN  { [t EXCEPT !.packages = ListPackages(t, 1, m.dev, m.omitted, << >>)] :
                    m \in Markings({ OccId(t, i) : i \in 1..t.n }) } :
            u \in UNION { TreesOfSize(n) : n \in 0..(MaxOcc - 3) } }

InitAudit ==
    /\ project = NoProject
    /\ depTree \in AuditedTrees
    /\ pc = "build"
    /\ stack = << >>
    /\ cursor = 1
    /\ nodes = << >>
    /\ edges = << >>
    /\ roots = << >>
    /\ result = [op |-> "none", arg |-> "", value |-> << >>]

\* generateSbom (lines 39-74) with scanNpmProject returning the given tree and
\* a list of findings; a later call for the same project repeats the options
\* and gets the same findings.
GenerateSbomOfAudit ==
    /\ pc = "build"
    /\ \E options \in { o \in SbomOptions(FALSE) :
                            result.op = "generateSbom" => o = result.arg },
          vulnerabilities \in { v \in FindingLists :
                            result.op = "generateSbom" => v = result.value.vulnerabilities } :
         LET now == Now(result)
             scanResult == [dependencies |-> depTree, vulnerabilities |-> vulnerabilities]
         IN  result' = [op |-> "generateSbom", arg |-> options,
                        value |-> generateSbom(scanResult, options,
                                               now.generatedAt, now.uuid)]
    /\ UNCHANGED <<project, depTree, pc, stack, cursor, nodes, edges, roots>>

SpecAudit == InitAudit /\ [][GenerateSbomOfAudit]_vars

\* ------------------------------------------------- claims (findings)
Attached == Generated /\ result.arg.attachVulnerabilities
FindingMatches(packages, vuln) ==
    <<vuln.package, vuln.version>> \in PackagePairsOf(packages)

\* C21: with attachment requested and findings reported, the CycloneDX
\* vulnerabilities array has one entry per finding in input order, also for a
\* finding whose package is not in the package set; affects is [{ref: bomRef
\* of the package}] when the finding's name@version matches a package and
\* empty otherwise; severity is low, medium, high, critical for low,
\* moderate, high, critical and 'unknown' for any other input.
C21_OneEntryPerFinding ==
    (IsCycloneDx /\ Attached /\ Len(result.value.vulnerabilities) > 0) =>
        LET findings == result.value.vulnerabilities
            document == result.value.document
        IN  /\ "vulnerabilities" \in DOMAIN document
            /\ Len(document.vulnerabilities) = Len(findings)
            /\ \A k \in 1..Len(findings) :
                 LET entry == document.vulnerabilities[k]
                     sev == findings[k].severity
                 IN  /\ entry.id = findings[k].id
                     /\ entry.affects =
                          IF FindingMatches(depTree.packages, findings[k])
                          THEN << [ref |-> createBomRef(findings[k].package,
                                                        findings[k].version)] >>
                          ELSE << >>
                     /\ Len(entry.ratings) = 1
                     /\ entry.ratings[1].severity =
                          IF sev = "low" THEN "low"
                          ELSE IF sev = "moderate" THEN "medium"
                          ELSE IF sev = "high" THEN "high"
                          ELSE IF sev = "critical" THEN "critical"
                          ELSE "unknown"

\* Three findings were attached: one for a package of the set, one for a
\* version the set lacks with a severity outside the four levels.
C21_Witness ==
    /\ IsCycloneDx /\ Attached
    /\ Len(result.value.vulnerabilities) = 3
    /\ \E j, k \in 1..3 :
         /\ result.value.document.vulnerabilities[j].affects # << >>
         /\ result.value.document.vulnerabilities[j].ratings[1].severity = "medium"
         /\ result.value.document.vulnerabilities[k].affects = << >>
         /\ result.value.document.vulnerabilities[k].ratings[1].severity = "unknown"

MatchesPackageSet(vuln) == FindingMatches(depTree.packages, vuln)

\* C22: with attachment requested, the SPDX annotations array has one entry
\* per finding whose name@version matches a package of the package set, in
\* input order, and none for any other finding; the spdxElementId of every
\* entry is the SPDXID of an entry of the packages array; all entries carry
\* the annotationDate equal to creationInfo.created.
C22_AnnotationsForMatches ==
    (IsSpdx /\ Attached) =>
        LET document == result.value.document
            matched == SelectSeq(result.value.vulnerabilities, MatchesPackageSet)
            ids == { document.packages[k].SPDXID : k \in 1..Len(document.packages) }
        IN  /\ Len(document.annotations) = Len(matched)
            /\ \A k \in 1..Len(matched) :
                 LET entry == document.annotations[k]
                 IN  /\ entry.spdxElementId
                          = createSpdxRef(matched[k].package, matched[k].version)
                     /\ entry.comment = matched[k].id \o " (" \o matched[k].severity
                                        \o ") - " \o matched[k].description
                     /\ entry.spdxElementId \in ids
                     /\ entry.annotationDate = document.creationInfo.created

\* Of three findings, some but not all were annotated.
C22_Witness ==
    /\ IsSpdx /\ Attached
    /\ Len(result.value.vulnerabilities) = 3
    /\ Len(result.value.document.annotations) \in {1, 2}

\* C23: embeddedVulnerabilities is true exactly when the returned document
\* carries at least one embedded finding (a non-empty vulnerabilities array
\* for CycloneDX, a non-empty annotations array for SPDX), and it is false,
\* with no finding in the document, when attachVulnerabilities is not set.
C23_FlagTellsTruth ==
    Generated =>
        LET document == result.value.document
            carries == IF result.value.format = "cyclonedx"
                       THEN /\ "vulnerabilities" \in DOMAIN document
                            /\ Len(document.vulnerabilities) > 0
                       ELSE Len(document.annotations) > 0
        IN  /\ result.value.embeddedVulnerabilities <=> carries
            /\ ~result.arg.attachVulnerabilities =>
                 (~result.value.embeddedVulnerabilities /\ ~carries)

\* ------------------------------------------------------ testDrivenUpdate
\* The project directory as the remediation code sees it: a map from file name
\* to content. The content of package.json and of package-lock.json is the
\* version of the package they pin; a file that does not exist is Absent.
MaxVersion == 2
Absent == "absent"
PackageJson == "package.json"
PackageLock == "package-lock.json"
PackageJsonBackup == "package.json.backup"
PackageLockBackup == "package-lock.json.backup"
SourceFile == "src/api.js"
Pinned(version) == "pkg@" \o ToString(version)
Files == {PackageJson, PackageLock, PackageJsonBackup, PackageLockBackup, SourceFile}

\* Outcome of a file or process operation: the directory it leaves and
\* whether it threw.
Ok(fs) == [fs |-> fs, error |-> FALSE]
Threw(fs) == [fs |-> fs, error |-> TRUE]

\* fs.copyFile: throws when the source does not exist or the copy fails (io).
copyFile(fs, src, dest, io) ==
    IF io /\ fs[src] # Absent THEN Ok([fs EXCEPT ![dest] = fs[src]]) ELSE Threw(fs)

\* fs.unlink: throws when the file does not exist.
unlink(fs, path) ==
    IF fs[path] # Absent THEN Ok([fs EXCEPT ![path] = Absent]) ELSE Threw(fs)

\* String.prototype.replace with a string pattern: the first occurrence only.
StringReplace(content, old, new) ==
    IF ~Contains(content, old) THEN content
    ELSE LET at == CHOOSE i \in 1..(Len(content) - Len(old) + 1) :
                       /\ SubSeq(content, i, i + Len(old) - 1) = old
                       /\ \A j \in 1..(i - 1) : SubSeq(content, j, j + Len(old) - 1) # old
         IN  SubSeq(content, 1, at - 1) \o new
             \o SubSeq(content, at + Len(old), Len(content))

\* createBackupFiles (lines 151-167): two copies in order; a failure is
\* caught and only warned about, the second copy is then skipped.
createBackupFiles(fs, io) ==
    LET first == copyFile(fs, PackageJson, PackageJsonBackup, io)
        second == copyFile(first.fs, PackageLock, PackageLockBackup, io)
    IN  IF first.error THEN first.fs ELSE second.fs

\* updatePackage (lines 169-177): npm install name@version rewrites both
\* package files, or fails and throws.
updatePackage(fs, version, npm) ==
    IF npm
    THEN Ok([fs EXCEPT ![PackageJson] = Pinned(version), ![PackageLock] = Pinned(version)])
    ELSE Threw(fs)

RECURSIVE ApplyChanges(_, _)
ApplyChanges(content, changes) ==
    IF changes = << >> THEN content
    ELSE ApplyChanges(StringReplace(content, Head(changes).old, Head(changes).new),
                      Tail(changes))

\* applyMigration (lines 179-195): read, replace, write; rethrows.
applyMigration(fs, migration, io) ==
    IF io /\ fs[migration.file] # Absent
    THEN Ok([fs EXCEPT ![migration.file] = ApplyChanges(@, migration.changes)])
    ELSE Threw(fs)

\* rollback (lines 197-224): restore both package files from the .backup
\* files, npm install, delete the .backup files; any failure is rethrown and
\* leaves what was done so far.
rollback(fs, npm) ==
    LET first == copyFile(fs, PackageJsonBackup, PackageJson, TRUE)
        second == copyFile(first.fs, PackageLockBackup, PackageLock, TRUE)
        third == unlink(second.fs, PackageJsonBackup)
        fourth == unlink(third.fs, PackageLockBackup)
    IN  IF first.error THEN first
        ELSE IF second.error THEN second
        ELSE IF ~npm THEN Threw(second.fs)
        ELSE IF third.error THEN third
        ELSE fourth

\* options.field ?? default, and options.field === false, on an options
\* object that has only the fields that were given.
OptionOr(options, field, default) ==
    IF field \in DOMAIN options THEN options[field] ELSE default
IsFalse(options, field) == field \in DOMAIN options /\ options[field] = FALSE

\* The loop of step 4 (lines 43-47).
RECURSIVE applyMigrations(_, _, _, _)
applyMigrations(fs, migrations, options, io) ==
    IF migrations = << >> THEN Ok(fs)
    ELSE LET migration == Head(migrations)
             applied == IF migration.safe \/ IsFalse(options, "interactive")
                        THEN applyMigration(fs, migration, io)
                        ELSE Ok(fs)
         IN  IF applied.error THEN applied
             ELSE applyMigrations(applied.fs, Tail(migrations), options, io)

\* What a call hands back: the UpdateResult it returned (with the fields the
\* code gave it), or thrown and no result; what the second test run said
\* (updatedTests), Undefined when it did not run; and which operations of the
\* outside world failed during the call (faults).
Returned(updateResult, updatedTests, faults) ==
    [thrown |-> FALSE, updatedTests |-> updatedTests, faults |-> faults,
     returned |-> updateResult]
Thrown(updatedTests, faults) ==
    [thrown |-> TRUE, updatedTests |-> updatedTests, faults |-> faults,
     returned |-> << >>]

\* testDrivenUpdate (lines 10-77). env says how the outside world answers:
\* baseline and tests are runTests' verdicts before and after the update,
\* copy whether the backup copies succeed, install and reinstall whether the
\* two npm install runs succeed, read whether a migration's file can be read.
testDrivenUpdate(fs, newVersion, migrations, options, env) ==
    LET shouldRunTests == OptionOr(options, "runTests", TRUE)
        shouldCreateBackup == OptionOr(options, "createBackup", TRUE)
        backedUp == IF shouldCreateBackup THEN createBackupFiles(fs, env.copy) ELSE fs
        updated == updatePackage(backedUp, newVersion, env.install)
        migrated == IF updated.error THEN updated
                    ELSE IF OptionOr(options, "autoApply", FALSE) /\ Len(migrations) > 0
                    THEN applyMigrations(updated.fs, migrations, options, env.read)
                    ELSE updated
        updatedTests == IF migrated.error \/ ~shouldRunTests THEN Undefined
                        ELSE IF env.tests THEN "passed" ELSE "failed"
        undone == IF updatedTests = "failed"
                  THEN rollback(migrated.fs, env.reinstall)
                  ELSE migrated
        caught == IF shouldCreateBackup
                  THEN rollback(undone.fs, env.reinstall).fs
                  ELSE undone.fs
        faults == { op \in {"copy", "install", "read", "reinstall"} : ~env[op] }
    IN  IF shouldRunTests /\ ~env.baseline
        THEN [fs |-> fs,
              value |-> Returned([success |-> FALSE,
                                  reason |-> "Tests failing before update"],
                                 Undefined, faults)]
        ELSE IF undone.error
        THEN [fs |-> caught, value |-> Thrown(updatedTests, faults)]
        ELSE IF updatedTests = "failed"
        THEN [fs |-> undone.fs,
              value |-> Returned([success |-> FALSE,
                                  reason |-> "Tests failed after update",
                                  migrations |-> migrations,
                                  rolledBack |-> TRUE],
                                 updatedTests, faults)]
        ELSE [fs |-> undone.fs,
              value |-> Returned([success |-> TRUE, migrations |-> migrations],
                                 updatedTests, faults)]

\* The options a caller may give: each field given or left out.
OptionValue(field) == IF field = "autoApply" THEN TRUE ELSE FALSE
RemediationOptions ==
    { [field \in given |-> OptionValue(field)] :
        given \in SUBSET {"autoApply", "runTests", "createBackup", "interactive"} }

Migration(safe) ==
    [file |-> SourceFile, changes |-> << [old |-> "old(", new |-> "next("] >>,
     safe |-> safe]
MigrationLists == { << >>, << Migration(TRUE) >>, << Migration(FALSE) >> }

\* The answers of the outside world, left TRUE wherever the call does not
\* get to ask.
Environments(options, migrations) ==
    LET shouldRunTests == OptionOr(options, "runTests", TRUE)
        shouldCreateBackup == OptionOr(options, "createBackup", TRUE)
        migrates == /\ OptionOr(options, "autoApply", FALSE)
                    /\ \E k \in 1..Len(migrations) :
                         migrations[k].safe \/ IsFalse(options, "interactive")
    IN  { env \in [baseline : BOOLEAN, copy : BOOLEAN, install : BOOLEAN,
                   read : BOOLEAN, tests : BOOLEAN, reinstall : BOOLEAN] :
            /\ ~shouldRunTests => (env.baseline /\ env.tests)
            /\ ~env.baseline => (env.copy /\ env.install)
            /\ ~shouldCreateBackup => env.copy
            /\ (~env.baseline \/ ~env.install \/ ~migrates) => env.read
            /\ (~env.baseline \/ ~env.install \/ ~env.read) => env.tests
            /\ ~env.baseline => env.reinstall
            /\ (env.install /\ env.read /\ env.tests) => env.reinstall }

InitUpdate ==
    /\ project \in { [file \in Files |->
                        IF file = PackageJson THEN Pinned(0)
                        ELSE IF file = PackageLock THEN lock
                        ELSE IF file = SourceFile THEN "use old(x); old(y)"
                        ELSE Absent] : lock \in {Pinned(0), Absent} }
    /\ depTree = EmptyTree
    /\ pc = "update"
    /\ stack = << >>
    /\ cursor = 1
    /\ nodes = << >>
    /\ edges = << >>
    /\ roots = << >>
    /\ result = [op |-> "none", arg |-> "", value |-> << >>]

\* One call of testDrivenUpdate on the project, to a version other than the
\* one package.json pins.
TestDrivenUpdate ==
    /\ pc = "update"
    /\ \E newVersion \in { v \in 1..MaxVersion : Pinned(v) # project[PackageJson] },
          migrations \in MigrationLists,
          options \in RemediationOptions :
         \E env \in Environments(options, migrations) :
            LET call == testDrivenUpdate(project, newVersion, migrations, options, env)
            IN  /\ project' = call.fs
                /\ result' = [op |-> "testDrivenUpdate", arg |-> options,
                              value |-> call.value]
    /\ UNCHANGED <<depTree, pc, stack, cursor, nodes, edges, roots>>

SpecUpdate == InitUpdate /\ [][TestDrivenUpdate]_vars

\* ------------------------------------------------- claims (remediation)
Updating == result'.op = "testDrivenUpdate"
RolledBack(value) ==
    /\ ~value.thrown
    /\ "rolledBack" \in DOMAIN value.returned
    /\ value.returned.rolledBack
PackageFilesAsBefore ==
    /\ project'[PackageJson] = project[PackageJson]
    /\ project'[PackageLock] = project[PackageLock]

\* C24: in a call that runs the tests, under every combination of the other
\* options, when the tests fail after the package was updated (and no copy
\* and no npm run failed on its own) the call ends with package.json and
\* package-lock.json holding what they held when it began, and returns
\* success: false with rolledBack: true.
C24_Step ==
    (/\ Updating
     /\ result'.value.updatedTests = "failed"
     /\ result'.value.faults = {}) =>
        /\ RolledBack(result'.value)
        /\ ~result'.value.returned.success
        /\ PackageFilesAsBefore
C24_RollbackOnFailure == [][C24_Step]_vars

\* C26: a call that returns rolledBack: true leaves every source file a
\* migration rewrote with the content it had when the call began, and the two
\* package files as well.
C26_Step ==
    (Updating /\ RolledBack(result'.value)) =>
        /\ project'[SourceFile] = project[SourceFile]
        /\ PackageFilesAsBefore
C26_RollbackUndoesMigrations == [][C26_Step]_vars

\* C27: over any sequence of calls, a call that rolls back restores the two
\* package files from copies made in that same call: a .backup file that was
\* already there when the call began is never what the rollback restores.
StaleBackup(file, backup) ==
    /\ project[backup] # Absent
    /\ project[backup] # project[file]
    /\ project'[file] = project[backup]
C27_Step ==
    (Updating /\ result'.value.updatedTests = "failed") =>
        /\ ~StaleBackup(PackageJson, PackageJsonBackup)
        /\ ~StaleBackup(PackageLock, PackageLockBackup)
C27_RestoresOwnBackup == [][C27_Step]_vars

\* ------------------------------------------------------------------ fix
MaxFindings == 2
severityLevels == << "low", "moderate", "high", "critical" >>

\* Array.prototype.indexOf, zero-based, -1 when absent.
ArrayIndexOf(array, x) ==
    IF \E i \in 1..Len(array) : array[i] = x
    THEN (CHOOSE i \in 1..Len(array) :
              array[i] = x /\ \A j \in 1..(i - 1) : array[j] # x) - 1
    ELSE -1

UpperLetters == "ABCDEFGHIJKLMNOPQRSTUVWXYZ"
LowerLetters == "abcdefghijklmnopqrstuvwxyz"
RECURSIVE toLowerCase(_)
toLowerCase(s) ==
    IF s = "" THEN ""
    ELSE LET c == SubSeq(s, 1, 1)
             at == IndexOf(UpperLetters, c)
         IN  (IF at = 0 THEN c ELSE SubSeq(LowerLetters, at, at))
             \o toLowerCase(SubSeq(s, 2, Len(s)))

\* The filter both entry points apply to the scan's findings (fix.ts lines
\* 34-39, SecureSync.fix lines 118-124).
vulnsToFix(vulnerabilities, maxSeverity) ==
    LET maxSeverityIndex == ArrayIndexOf(severityLevels, maxSeverity)
        Kept(v) == ArrayIndexOf(severityLevels, v.severity) >= maxSeverityIndex
    IN  SelectSeq(vulnerabilities, Kept)

\* The level each entry point filters by: the command lower-cases its
\* --max-severity option, the method defaults a missing one to 'critical'.
CommandLevel(options) == toLowerCase(options.maxSeverity)
MethodLevel(options) ==
    IF Truthy(options.maxSeverity) THEN options.maxSeverity ELSE "critical"

\* The findings a scan may report: up to MaxFindings, each of some level.
ScanFindings ==
    UNION { { [k \in 1..n |-> [id |-> "CVE-" \o ToString(k), package |-> "a_b",
                               version |-> "1", severity |-> levels[k]]] :
                levels \in [1..n -> SeqSet(severityLevels)] } : n \in 0..MaxFindings }

InitFix ==
    /\ project = NoProject
    /\ depTree = EmptyTree
    /\ pc = "fix"
    /\ stack = << >>
    /\ cursor = 1
    /\ nodes = << >>
    /\ edges = << >>
    /\ roots = << >>
    /\ result = [op |-> "none", arg |-> "", value |-> << >>]

\* securesync fix --max-severity <level> (the option defaults to 'critical').
FixCommand ==
    /\ pc = "fix"
    /\ \E vulnerabilities \in ScanFindings,
          maxSeverity \in SeqSet(severityLevels) \cup {"HIGH"} :
         LET options == [maxSeverity |-> maxSeverity]
         IN  result' = [op |-> "fix",
                        arg |-> [entry |-> "command", options |-> options,
                                 vulnerabilities |-> vulnerabilities],
                        value |-> vulnsToFix(vulnerabilities, CommandLevel(options))]
    /\ UNCHANGED <<project, depTree, pc, stack, cursor, nodes, edges, roots>>

\* SecureSync.fix({maxSeverity}), the option given or left out.
FixMethod ==
    /\ pc = "fix"
    /\ \E vulnerabilities \in ScanFindings,
          maxSeverity \in SeqSet(severityLevels) \cup {Undefined} :
         LET options == [maxSeverity |-> maxSeverity]
         IN  result' = [op |-> "fix",
                        arg |-> [entry |-> "method", options |-> options,
                                 vulnerabilities |-> vulnerabilities],
                        value |-> vulnsToFix(vulnerabilities, MethodLevel(options))]
    /\ UNCHANGED <<project, depTree, pc, stack, cursor, nodes, edges, roots>>

NextFix == FixCommand \/ FixMethod
SpecFix == InitFix /\ [][NextFix]_vars

\* ---------------------------------------------------------- claims (fix)
\* The level a call asked for, 'critical' when it gave none.
AskedLevel ==
    IF result.arg.options.maxSeverity = Undefined THEN "critical"
    ELSE toLowerCase(result.arg.options.maxSeverity)
Rank(level) == ArrayIndexOf(severityLevels, level)
AtMostAsked(v) == Rank(v.severity) <= Rank(AskedLevel)

\* C25: fix selects exactly the findings whose severity is at most the given
\* level in the order low < moderate < high < critical: every finding for the
\* default 'critical', only the low ones for 'low'.
C25_AtMostLevel ==
    result.op = "fix" =>
        result.value = SelectSeq(result.arg.vulnerabilities, AtMostAsked)

\* ----------------------------------------- claims (CycloneDX references)
DependencyRefs(document) ==
    { document.dependencies[k].ref : k \in 1..Len(document.dependencies) }
ComponentRefs(document) ==
    { document.components[k].bomRef : k \in 1..Len(document.components) }
DependsOnRefs(document) ==
    UNION { SeqSet(document.dependencies[k].dependsOn) :
              k \in 1..Len(document.dependencies) }

\* C28: in every CycloneDX document some entry of the dependencies array has
\* the reference of metadata.component, with or without componentName and
\* componentVersion overrides in the options.
C28_RootEntryNamesRootComponent ==
    IsCycloneDx =>
        result.value.document.metadata.component.bomRef
            \in DependencyRefs(result.value.document)

\* C29: in the CycloneDX document of a scanned project every ref of the
\* dependencies array and every reference in a dependsOn list is the bomRef
\* of a component or of metadata.component, and every component's bomRef is
\* the ref of an entry of dependencies.
ReferentialIntegrity(document) ==
    LET known == ComponentRefs(document) \cup {document.metadata.component.bomRef}
    IN  /\ DependencyRefs(document) \subseteq known
        /\ DependsOnRefs(document) \subseteq known
        /\ ComponentRefs(document) \subseteq DependencyRefs(document)
C29_ReferentialIntegrity ==
    IsCycloneDx => ReferentialIntegrity(result.value.document)

C29_WithoutOverride ==
    (IsCycloneDx /\ result.arg.metadata = NoMetadata) =>
        ReferentialIntegrity(result.value.document)

\* ------------------------------------------- claims (depth and parent)
\* C30: in the returned graph a node has no parent exactly when the first
\* occurrence of its package is a root; and for every node with a parent, the
\* parent id is a key of nodes, the node's id is in that parent's children
\* list, and the node's depth is the parent's stored depth plus one; also when
\* two occurrences of one (name, version) pair carry different child maps.
C30_DepthParentConsistent ==
    pc = "done" =>
        \A i \in 1..Len(nodes) :
            LET node == nodes[i]
            IN  /\ (node.parent = Undefined)
                     <=> (depTree.up[FirstOcc(depTree, node.id)] = 0)
                /\ node.parent # Undefined =>
                     /\ MapHas(nodes, node.parent)
                     /\ Includes(MapGet(nodes, node.parent).children, node.id)
                     /\ node.depth = MapGet(nodes, node.parent).depth + 1

\* The packages directly under occurrence i, and whether every occurrence of
\* a package carries the same ones.
ChildIds(t, i) == { OccId(t, k) : k \in { j \in Occurrences(t) : t.up[j] = i } }
SameChildMaps(t) ==
    \A i, j \in Occurrences(t) :
        OccId(t, i) = OccId(t, j) => ChildIds(t, i) = ChildIds(t, j)

\* C30, amended: a node has no parent exactly when the first occurrence of
\* its package is a root; its depth is the tree depth of that first
\* occurrence and its parent the package above it; the parent is a key of
\* nodes and lists the node among its children; and the depth is the parent's
\* stored depth plus one when the first occurrence lies under the first
\* occurrence of the parent's package, which is so in every tree whose
\* occurrences of one pair all carry the same child map.
C30_FirstSeenConsistent ==
    pc = "done" =>
        \A i \in 1..Len(nodes) :
            LET node == nodes[i]
                first == FirstOcc(depTree, node.id)
                above == depTree.up[first]
                consistent == node.depth = MapGet(nodes, node.parent).depth + 1
            IN  /\ (node.parent = Undefined) <=> (above = 0)
                /\ node.depth = TreeDepth(depTree, first)
                /\ node.parent # Undefined =>
                     /\ node.parent = OccId(depTree, above)
                     /\ MapHas(nodes, node.parent)
                     /\ Includes(MapGet(nodes, node.parent).children, node.id)
                     /\ above = FirstOcc(depTree, node.parent) => consistent
                     /\ SameChildMaps(depTree) => consistent

\* A graph in which a node was first seen under a later occurrence of its
\* parent's package, one level deeper than the parent's node says.
C30_Witness ==
    /\ pc = "done"
    /\ ~SameChildMaps(depTree)
    /\ \E i \in 1..Len(nodes) :
         /\ nodes[i].parent # Undefined
         /\ nodes[i].depth > MapGet(nodes, nodes[i].parent).depth + 1
====
